---- MODULE Spec2Model ----
(***************************************************************************)
(* Model of the NLNetworkStats polling pipeline and state engine           *)
(* (backend/app/services/monitor.py, scheduler.py, routers/status.py).     *)
(*                                                                         *)
(* Values.  Python str fields are TLA+ strings, with None written "None".  *)
(* Link-speed strings are sequences of one-character strings so that       *)
(* lower(), strip() and the substring tests of normalize_speed are         *)
(* computed; None is there the one-element sequence <<"None">>.            *)
(* datetime values are integers of the clock `now`; None is -1.            *)
(* Python dicts are sequences of <<key, value>> pairs in insertion order.  *)
(***************************************************************************)
EXTENDS Integers, Sequences, FiniteSets, TLC

None == "None"
NoneS == <<"None">>
NoneT == -1

\* ------------------------------------------------------------------ bounds
MaxCycles == 3
MaxReadings == 6
MaxTotal == 5
MaxClock == 32
MaxTokens == 3

\* ------------------------------------------------------- sequence helpers
RECURSIVE SetToSeq(_)
SetToSeq(S) ==
    IF S = {} THEN <<>>
    ELSE LET x == CHOOSE y \in S : TRUE IN <<x>> \o SetToSeq(S \ {x})

\* ---------------------------------------------------- Python dict (ordered)
DictHas(d, k) == \E i \in 1..Len(d) : d[i][1] = k

DictGet(d, k, default) ==
    IF DictHas(d, k)
    THEN d[CHOOSE i \in 1..Len(d) : d[i][1] = k][2]
    ELSE default

DictPut(d, k, v) ==
    IF DictHas(d, k)
    THEN [i \in 1..Len(d) |-> IF d[i][1] = k THEN <<k, v>> ELSE d[i]]
    ELSE Append(d, <<k, v>>)

DictValues(d) == [i \in 1..Len(d) |-> d[i][2]]

\* ----------------------------------------------------------- str helpers
Alphabet ==
    [upper |-> <<"A","B","C","D","E","F","G","H","I","J","K","L","M",
                 "N","O","P","Q","R","S","T","U","V","W","X","Y","Z">>,
     lower |-> <<"a","b","c","d","e","f","g","h","i","j","k","l","m",
                 "n","o","p","q","r","s","t","u","v","w","x","y","z">>]
StrLower(s) ==
    [i \in 1..Len(s) |->
        IF \E k \in 1..26 : Alphabet.upper[k] = s[i]
        THEN Alphabet.lower[CHOOSE k \in 1..26 : Alphabet.upper[k] = s[i]]
        ELSE s[i]]

StrStrip(s) ==
    LET keep == {i \in 1..Len(s) : s[i] \notin {" ", "\t", "\n"}}
    IN  IF keep = {} THEN <<>>
        ELSE SubSeq(s, CHOOSE i \in keep : \A j \in keep : i <= j,
                       CHOOSE i \in keep : \A j \in keep : j <= i)

StrIn(sub, s) ==
    \E i \in 1..(Len(s) - Len(sub) + 1) : SubSeq(s, i, i + Len(sub) - 1) = sub

\* canonical speeds returned by normalize_speed
S10G == <<"1","0","G","b","p","s">>
S2_5G == <<"2",".","5","G","b","p","s">>
S5G == <<"5","G","b","p","s">>
S1G == <<"1","G","b","p","s">>
S100M == <<"1","0","0","M","b","p","s">>
S10M == <<"1","0","M","b","p","s">>

\* Python truthiness of an optional str: None and "" are falsy
Truthy(s) == s # NoneS /\ s # <<>>

\* classify_speed with the 5g test ahead of the 2.5g test
classify_speed_5g_first(sp) ==
    IF StrIn(<<"1","0","g">>, sp) THEN S10G
    ELSE IF StrIn(<<"5","g">>, sp) THEN S5G
    ELSE IF StrIn(<<"2",".","5","g">>, sp) THEN S2_5G
    ELSE IF \/ StrIn(<<"1","g">>, sp)
            \/ StrIn(<<"g","b","p","s">>, sp)
            \/ StrIn(<<"g","b","i","t">>, sp) THEN S1G
    ELSE IF StrIn(<<"1","0","0","m">>, sp) \/ StrIn(<<"1","0","0","-">>, sp) THEN S100M
    ELSE IF StrIn(<<"1","0","m">>, sp) \/ StrIn(<<"1","0","-">>, sp) THEN S10M
    ELSE sp

\* monitor.py 28-42, on the lower-cased and stripped text
classify_speed(sp) ==
    IF StrIn(<<"1","0","g">>, sp) THEN S10G
    ELSE IF StrIn(<<"2",".","5","g">>, sp) THEN S2_5G
    ELSE IF StrIn(<<"5","g">>, sp) THEN S5G
    ELSE IF \/ StrIn(<<"1","g">>, sp)
            \/ StrIn(<<"g","b","p","s">>, sp)
            \/ StrIn(<<"g","b","i","t">>, sp) THEN S1G
    ELSE IF StrIn(<<"1","0","0","m">>, sp) \/ StrIn(<<"1","0","0","-">>, sp) THEN S100M
    ELSE IF StrIn(<<"1","0","m">>, sp) \/ StrIn(<<"1","0","-">>, sp) THEN S10M
    ELSE sp

\* monitor.py 21-42
normalize_speed(speed) ==
    IF ~Truthy(speed) THEN NoneS
    ELSE classify_speed(StrStrip(StrLower(speed)))

\* ------------------------------------------------------------ addresses
\* Text of every address of the model, for the parsers that read it.
AddrText ==
    [a \in {"10.0.0.5", "10.0.0.6", "cam.lan", "nas.lan"} |->
        CASE a = "10.0.0.5" -> <<"1","0",".","0",".","0",".","5">>
          [] a = "10.0.0.6" -> <<"1","0",".","0",".","0",".","6">>
          [] a = "cam.lan"  -> <<"c","a","m",".","l","a","n">>
          [] a = "nas.lan"  -> <<"n","a","s",".","l","a","n">>]

\* str.split('.') : the maximal runs between dots, empty runs included
RECURSIVE StrSplitDot(_)
StrSplitDot(s) ==
    IF \A i \in 1..Len(s) : s[i] # "."
    THEN <<s>>
    ELSE LET d == CHOOSE i \in 1..Len(s) :
                     s[i] = "." /\ \A j \in 1..(i - 1) : s[j] # "."
         IN  <<SubSeq(s, 1, d - 1)>> \o StrSplitDot(SubSeq(s, d + 1, Len(s)))

inet_aton_ok(hostname) ==
    LET parts == StrSplitDot(AddrText[hostname])
    IN  /\ Len(parts) <= 4
        /\ \A i \in 1..Len(parts) :
               /\ Len(parts[i]) > 0
               /\ \A j \in 1..Len(parts[i]) :
                      parts[i][j] \in {"0","1","2","3","4","5","6","7","8","9"}

\* dns[hostname] is the answer of gethostbyname this cycle, "gaierror" on failure
resolve_hostname(hostname, dns) ==
    IF inet_aton_ok(hostname) THEN hostname
    ELSE IF dns[hostname] # "gaierror" THEN dns[hostname]
    ELSE hostname

\* str.upper() of the MAC addresses of the model
MacUpper(mac) == IF mac = "cc" THEN "CC" ELSE mac

\* Python truthiness of an optional plain string
TruthyStr(s) == s # None /\ s # ""

\* ------------------------------------------------------ model records
DeviceStatus(name, ip, expected_speed, last_seen) ==
    [name |-> name, ip |-> ip, mac |-> None, expected_speed |-> expected_speed,
     actual_speed |-> NoneS, switch_name |-> None, port_name |-> None,
     speed_match |-> FALSE, online |-> FALSE, last_seen |-> last_seen]

SwitchStatus(name, host, connected, error, last_check) ==
    [name |-> name, host |-> host, connected |-> connected, error |-> error,
     last_check |-> last_check]

\* -------------------------------------------- collect_data: seed statuses
\* lines 135-149: one fresh DeviceStatus per resolved address
SeedOne(device, resolved_ip, old_statuses, acc) ==
    [device_config |-> DictPut(acc.device_config, resolved_ip, device),
     device_statuses |->
         DictPut(acc.device_statuses, resolved_ip,
             DeviceStatus(device.name, device.ip, device.expected_speed,
                          IF DictHas(old_statuses, resolved_ip)
                          THEN DictGet(old_statuses, resolved_ip, None).last_seen
                          ELSE NoneT))]

RECURSIVE SeedStatuses(_, _, _, _)
SeedStatuses(devs, old_statuses, dns, acc) ==
    IF devs = <<>> THEN acc
    ELSE SeedStatuses(Tail(devs), old_statuses, dns,
             SeedOne(Head(devs), resolve_hostname(Head(devs).ip, dns),
                     old_statuses, acc))

\* lines 160-166: configured MACs, keyed to the configured (unresolved) address
RECURSIVE ConfiguredMacs(_, _)
ConfiguredMacs(devs, acc) ==
    IF devs = <<>> THEN acc
    ELSE LET device == Head(devs)
         IN  ConfiguredMacs(Tail(devs),
                 IF TruthyStr(device.mac)
                 THEN DictPut(acc, MacUpper(device.mac), device.ip)
                 ELSE acc)

\* lines 175-177
RECURSIVE OverlayArp(_, _)
OverlayArp(arp, acc) ==
    IF arp = <<>> THEN acc
    ELSE OverlayArp(Tail(arp), DictPut(acc, Head(arp).mac, Head(arp).ip))

\* lines 179-184: leases are a dict ip -> mac
RECURSIVE OverlayDhcp(_, _)
OverlayDhcp(leases, acc) ==
    IF leases = <<>> THEN acc
    ELSE LET ip == Head(leases)[1]
             mac == Head(leases)[2]
         IN  OverlayDhcp(Tail(leases),
                 IF ~DictHas(acc, mac) THEN DictPut(acc, mac, ip) ELSE acc)

\* Session with `try: ...` followed by disconnect() instead of try/finally
Session_no_finally(switch_config, up, raised) ==
    LET connected == [host |-> switch_config.host, opened |-> up,
                      _api |-> IF up THEN "api" ELSE None, closes |-> 0]
        disconnect(client) ==
            IF client._api # None
            THEN [client EXCEPT !._api = None, !.closes = @ + 1]
            ELSE client
    IN  IF up /\ ~raised THEN disconnect(connected) ELSE connected

\* mikrotik.py 51-82 with monitor.py 169-186 and 113-125: the client made
\* for switch_config once its block is left.  connect() returned `up`; the
\* body of the try raised or not; the finally clause calls disconnect(),
\* which closes the api when there is one and forgets it.
Session(switch_config, up, raised) ==
    LET connected == [host |-> switch_config.host, opened |-> up,
                      _api |-> IF up THEN "api" ELSE None, closes |-> 0]
        disconnect(client) ==
            IF client._api # None
            THEN [client EXCEPT !._api = None, !.closes = @ + 1]
            ELSE client
    IN  IF up THEN disconnect(connected) ELSE connected

\* lines 168-186: env[i] is what switch i answers this cycle.  An exception
\* that get_all_data lets through leaves the loop and collect_data (the
\* try of line 171 has a finally and no except).
RECURSIVE FirstPass(_, _, _, _)
FirstPass(sws, env, i, acc) ==
    IF i > Len(sws) THEN acc
    ELSE IF env[i].connect
         THEN IF env[i].raised
              THEN [acc EXCEPT !.raised = TRUE,
                               !.sessions = Append(@, Session(sws[i], TRUE, TRUE))]
              ELSE LET data == env[i].data
                   IN  FirstPass(sws, env, i + 1,
                           [all_mac_to_ip |->
                                OverlayDhcp(data.dhcp_leases,
                                    OverlayArp(data.arp, acc.all_mac_to_ip)),
                            switch_data |-> Append(acc.switch_data, <<sws[i], data>>),
                            raised |-> FALSE,
                            sessions |-> Append(acc.sessions,
                                                Session(sws[i], TRUE, FALSE))])
         ELSE FirstPass(sws, env, i + 1,
                        [acc EXCEPT !.sessions = Append(@, Session(sws[i], FALSE, FALSE))])

\* ------------------------------------------------ _process_switch_data
\* lines 225-227
RECURSIVE BuildMacToPort(_, _)
BuildMacToPort(hosts, acc) ==
    IF hosts = <<>> THEN acc
    ELSE BuildMacToPort(Tail(hosts), DictPut(acc, Head(hosts).mac, Head(hosts).interface))

\* lines 234-251: only the speed of port_info is read afterwards
RECURSIVE BuildPortInfo(_, _)
BuildPortInfo(ifaces, acc) ==
    IF ifaces = <<>> THEN acc
    ELSE BuildPortInfo(Tail(ifaces), DictPut(acc, Head(ifaces).name, Head(ifaces).speed))

\* lines 268-272 and 279-283
SetSpeed(status, actual, expected) ==
    [status EXCEPT !.actual_speed = actual, !.speed_match = (actual = expected)]

WithSpeed(status, port, port_info) ==
    IF DictHas(port_info, port)
    THEN SetSpeed(status, normalize_speed(DictGet(port_info, port, NoneS)),
                  normalize_speed(status.expected_speed))
    ELSE status

\* UpdateStatus with an auto-discovery that records the port and not the switch
UpdateStatus_port_only(status, has_cfg, device_cfg, mac, port_name, switch_identity, uplink_ports, port_info, t) ==
    IF ~DictHas(uplink_ports, port_name) /\ status.port_name = None
    THEN WithSpeed([status EXCEPT !.mac = mac, !.online = TRUE, !.last_seen = t,
                                  !.port_name = port_name],
                   port_name, port_info)
    ELSE [status EXCEPT !.mac = mac, !.online = TRUE, !.last_seen = t]

\* lines 256-283: one (mac, port_name) item of mac_to_port
UpdateStatus(status, has_cfg, device_cfg, mac, port_name, switch_identity, uplink_ports, port_info, t) ==
    LET seen == [status EXCEPT !.mac = mac, !.online = TRUE, !.last_seen = t]
    IN  IF has_cfg /\ TruthyStr(device_cfg.switch) /\ TruthyStr(device_cfg.port)
        THEN IF device_cfg.switch = switch_identity
             THEN WithSpeed([seen EXCEPT !.port_name = device_cfg.port,
                                         !.switch_name = switch_identity],
                            device_cfg.port, port_info)
             ELSE seen
        ELSE IF ~DictHas(uplink_ports, port_name) /\ status.port_name = None
             THEN WithSpeed([seen EXCEPT !.port_name = port_name,
                                         !.switch_name = switch_identity],
                            port_name, port_info)
             ELSE seen

\* UpdateItem that treats every device as auto-discovered
UpdateItem_unpinned(mac, port_name, ip, device_statuses, device_config, switch_identity, uplink_ports, port_info, t) ==
    IF TruthyStr(ip) /\ DictHas(device_statuses, ip)
    THEN DictPut(device_statuses, ip,
             UpdateStatus(DictGet(device_statuses, ip, None),
                          FALSE,
                          DictGet(device_config, ip, None),
                          mac, port_name, switch_identity,
                          uplink_ports, port_info, t))
    ELSE device_statuses

\* lines 255-283 for one item
UpdateItem(mac, port_name, ip, device_statuses, device_config, switch_identity, uplink_ports, port_info, t) ==
    IF TruthyStr(ip) /\ DictHas(device_statuses, ip)
    THEN DictPut(device_statuses, ip,
             UpdateStatus(DictGet(device_statuses, ip, None),
                          DictHas(device_config, ip),
                          DictGet(device_config, ip, None),
                          mac, port_name, switch_identity,
                          uplink_ports, port_info, t))
    ELSE device_statuses

\* lines 254-283
RECURSIVE UpdateStatuses(_, _, _, _, _, _, _, _)
UpdateStatuses(mac_to_port, all_mac_to_ip, device_statuses, device_config, switch_identity, uplink_ports, port_info, t) ==
    IF mac_to_port = <<>> THEN device_statuses
    ELSE UpdateStatuses(Tail(mac_to_port), all_mac_to_ip,
             UpdateItem(Head(mac_to_port)[1], Head(mac_to_port)[2],
                        DictGet(all_mac_to_ip, Head(mac_to_port)[1], None),
                        device_statuses, device_config, switch_identity,
                        uplink_ports, port_info, t),
             device_config, switch_identity, uplink_ports, port_info, t)

\* lines 288-290; identities of the model carry no upper-case letters
RECURSIVE NeighborLabels(_, _)
NeighborLabels(uplink_ports, acc) ==
    IF uplink_ports = <<>> THEN acc
    ELSE NeighborLabels(Tail(uplink_ports),
             IF Head(uplink_ports)[2] # "basic_switch"
             THEN DictPut(acc, Head(uplink_ports)[1], Head(uplink_ports)[2])
             ELSE acc)

\* lines 292-294
RECURSIVE DeviceLabels(_, _, _)
DeviceLabels(statuses, switch_identity, acc) ==
    IF statuses = <<>> THEN acc
    ELSE LET status == Head(statuses)
         IN  DeviceLabels(Tail(statuses), switch_identity,
                 IF status.switch_name = switch_identity /\ TruthyStr(status.port_name)
                 THEN DictPut(acc, status.port_name, status.name)
                 ELSE acc)

\* has_issues as the legacy _collect_from_switch computes it (432-439)
has_issues_legacy(iface) ==
    \/ iface.rx_dropped > 0 \/ iface.tx_dropped > 0
    \/ iface.rx_errors > 0 \/ iface.tx_errors > 0
    \/ iface.rx_fcs_errors > 0 \/ iface.tx_fcs_errors > 0

\* lines 298-308
has_issues(iface) ==
    \/ iface.rx_dropped > 0
    \/ iface.tx_dropped > 0
    \/ iface.rx_errors > 0
    \/ iface.tx_errors > 0
    \/ iface.rx_fcs_errors > 0
    \/ iface.tx_fcs_errors > 0
    \/ iface.rx_pause > 0
    \/ iface.rx_fragment > 0
    \/ ~iface.full_duplex

\* PortErrors with has_issues raised by every counter of the trend total
PortErrors_tx_pause(switch_identity, iface, port_to_device) ==
    [switch_name |-> switch_identity,
     port_name |-> iface.name,
     device_name |-> DictGet(port_to_device, iface.name, None),
     link_status |-> IF iface.running THEN "up" ELSE "down",
     speed |-> normalize_speed(iface.speed),
     full_duplex |-> iface.full_duplex,
     rx_bytes |-> iface.rx_bytes,
     tx_bytes |-> iface.tx_bytes,
     rx_dropped |-> iface.rx_dropped,
     tx_dropped |-> iface.tx_dropped,
     rx_errors |-> iface.rx_errors,
     tx_errors |-> iface.tx_errors,
     rx_fcs_errors |-> iface.rx_fcs_errors,
     tx_fcs_errors |-> iface.tx_fcs_errors,
     rx_pause |-> iface.rx_pause,
     tx_pause |-> iface.tx_pause,
     rx_fragment |-> iface.rx_fragment,
     has_issues |-> has_issues(iface) \/ iface.tx_pause > 0]

\* lines 310-331
PortErrors(switch_identity, iface, port_to_device) ==
    [switch_name |-> switch_identity,
     port_name |-> iface.name,
     device_name |-> DictGet(port_to_device, iface.name, None),
     link_status |-> IF iface.running THEN "up" ELSE "down",
     speed |-> normalize_speed(iface.speed),
     full_duplex |-> iface.full_duplex,
     rx_bytes |-> iface.rx_bytes,
     tx_bytes |-> iface.tx_bytes,
     rx_dropped |-> iface.rx_dropped,
     tx_dropped |-> iface.tx_dropped,
     rx_errors |-> iface.rx_errors,
     tx_errors |-> iface.tx_errors,
     rx_fcs_errors |-> iface.rx_fcs_errors,
     tx_fcs_errors |-> iface.tx_fcs_errors,
     rx_pause |-> iface.rx_pause,
     tx_pause |-> iface.tx_pause,
     rx_fragment |-> iface.rx_fragment,
     has_issues |-> has_issues(iface)]

\* lines 296-331
CollectPortErrors(switch_identity, interfaces, port_to_device) ==
    [i \in 1..Len(interfaces) |->
        PortErrors(switch_identity, interfaces[i], port_to_device)]

\* lines 285-331, once the statuses are updated
LabelPorts(switch_config, data, statuses, st, t) ==
    [device_statuses |-> statuses,
     port_errors |-> st.port_errors \o
         CollectPortErrors(data.identity, data.interfaces,
             DeviceLabels(DictValues(statuses), data.identity,
                          NeighborLabels(data.uplink_ports, <<>>))),
     switch_statuses |-> DictPut(st.switch_statuses, switch_config.name,
         SwitchStatus(data.identity, switch_config.host, TRUE, None, t))]

\* _process_switch_data that takes no port for an uplink
process_switch_data_no_uplinks(switch_config, data, all_mac_to_ip, device_config, st, t) ==
    LabelPorts(switch_config, data,
        UpdateStatuses(BuildMacToPort(data.bridge_hosts, <<>>), all_mac_to_ip,
                       st.device_statuses, device_config, data.identity,
                       <<>>, BuildPortInfo(data.interfaces, <<>>), t),
        st, t)

\* The whole of _process_switch_data for one switch.  st carries the three
\* structures it writes: device_statuses, port_errors and switch_statuses.
process_switch_data(switch_config, data, all_mac_to_ip, device_config, st, t) ==
    LabelPorts(switch_config, data,
        UpdateStatuses(BuildMacToPort(data.bridge_hosts, <<>>), all_mac_to_ip,
                       st.device_statuses, device_config, data.identity,
                       data.uplink_ports, BuildPortInfo(data.interfaces, <<>>), t),
        st, t)

\* lines 189-190
RECURSIVE SecondPass(_, _, _, _, _)
SecondPass(switch_data, all_mac_to_ip, device_config, st, t) ==
    IF switch_data = <<>> THEN st
    ELSE SecondPass(Tail(switch_data), all_mac_to_ip, device_config,
             process_switch_data(Head(switch_data)[1], Head(switch_data)[2],
                                 all_mac_to_ip, device_config, st, t), t)

\* ---------------------------------------------- _verify_online_with_ping
\* lines 104-106
OnlineResolvedIps(device_statuses) ==
    {device_statuses[i][1] : i \in {j \in 1..Len(device_statuses) :
                                        device_statuses[j][2].online}}

\* mikrotik.py 265-279: answer is what the router does with the /ping of one
\* address: a row with received > 0, rows without one, or an exception
\* ping_check with an exception taken for a reply
ping_check_optimistic(_api, answer) ==
    IF _api = None THEN FALSE
    ELSE answer # "lost"

ping_check(_api, answer) ==
    IF _api = None THEN FALSE
    ELSE answer = "received"

\* mikrotik.py 281-286, as the set of the addresses with result True
ping_multiple(_api, answers) ==
    {ip \in DOMAIN answers : ping_check(_api, answers[ip])}

\* lines 99-113: the client _verify_online_with_ping makes for the router
PingSessions(sws, device_statuses, connected) ==
    IF sws = <<>> \/ OnlineResolvedIps(device_statuses) = {} THEN <<>>
    ELSE <<Session(sws[1], connected, FALSE)>>

\* _verify_online_with_ping that also forgets where the second pass found
\* a device that does not answer
verify_online_with_ping_reset(sws, device_statuses, connected, reachable) ==
    IF sws = <<>> THEN device_statuses
    ELSE IF OnlineResolvedIps(device_statuses) = {} THEN device_statuses
    ELSE IF ~connected THEN device_statuses
    ELSE [i \in 1..Len(device_statuses) |->
             IF /\ device_statuses[i][2].online
                /\ device_statuses[i][1] \notin reachable
             THEN <<device_statuses[i][1],
                    [device_statuses[i][2] EXCEPT !.online = FALSE,
                                                  !.switch_name = None,
                                                  !.port_name = None,
                                                  !.actual_speed = NoneS,
                                                  !.speed_match = FALSE]>>
             ELSE device_statuses[i]]

\* _verify_online_with_ping that fails closed: without a router session
\* every device is taken for unreachable
verify_online_with_ping_closed(sws, device_statuses, connected, reachable) ==
    IF sws = <<>> THEN device_statuses
    ELSE IF OnlineResolvedIps(device_statuses) = {} THEN device_statuses
    ELSE [i \in 1..Len(device_statuses) |->
             IF /\ device_statuses[i][2].online
                /\ (~connected \/ device_statuses[i][1] \notin reachable)
             THEN <<device_statuses[i][1],
                    [device_statuses[i][2] EXCEPT !.online = FALSE]>>
             ELSE device_statuses[i]]

\* lines 98-125: connected is the outcome of the router session, reachable
\* the set of addresses that answer the ping
verify_online_with_ping(sws, device_statuses, connected, reachable) ==
    IF sws = <<>> THEN device_statuses
    ELSE IF OnlineResolvedIps(device_statuses) = {} THEN device_statuses
    ELSE IF ~connected THEN device_statuses
    ELSE [i \in 1..Len(device_statuses) |->
             IF /\ device_statuses[i][2].online
                /\ device_statuses[i][1] \notin reachable
             THEN <<device_statuses[i][1],
                    [device_statuses[i][2] EXCEPT !.online = FALSE]>>
             ELSE device_statuses[i]]

\* ------------------------------------------------------------ read API
\* line 464
get_all_devices(device_statuses) == DictValues(device_statuses)

\* get_mismatched_devices without the online test
get_mismatched_devices_any(device_statuses) ==
    LET Test(status) == Truthy(status.actual_speed) /\ ~status.speed_match
    IN  SelectSeq(DictValues(device_statuses), Test)

\* lines 466-472
get_mismatched_devices(device_statuses) ==
    LET Test(status) ==
            status.online /\ Truthy(status.actual_speed) /\ ~status.speed_match
    IN  SelectSeq(DictValues(device_statuses), Test)

\* lines 483-489
get_offline_devices(device_statuses) ==
    LET Test(status) == ~status.online
    IN  SelectSeq(DictValues(device_statuses), Test)

\* int(p) of line 481: the value of a run of decimal digits, -1 where int
\* raises ValueError (an empty run, or a character that is no digit)
RECURSIVE StrToInt(_)
StrToInt(s) ==
    LET digits == <<"0","1","2","3","4","5","6","7","8","9">>
        init == IF Len(s) > 1 THEN StrToInt(SubSeq(s, 1, Len(s) - 1)) ELSE 0
    IN  IF s = <<>> \/ init = -1 \/ \A k \in 1..10 : digits[k] # s[Len(s)] THEN -1
        ELSE 10 * init + (CHOOSE k \in 1..10 : digits[k] = s[Len(s)]) - 1

\* lines 474-481: the filter, then sorted() with the key computed for every
\* element; sorted is stable.  raised says that the key raised ValueError.
get_matched_devices(device_statuses) ==
    LET Test(status) == status.online /\ status.speed_match
        devices == SelectSeq(DictValues(device_statuses), Test)
        key(d) == [i \in 1..Len(StrSplitDot(AddrText[d.ip])) |->
                      StrToInt(StrSplitDot(AddrText[d.ip])[i])]
        Less(a, b) ==
            \/ \E k \in 1..Len(a) :
                   /\ k <= Len(b)
                   /\ \A j \in 1..(k - 1) : a[j] = b[j]
                   /\ a[k] < b[k]
            \/ Len(a) < Len(b) /\ \A j \in 1..Len(a) : a[j] = b[j]
        Before(i, j) ==
            \/ Less(key(devices[i]), key(devices[j]))
            \/ ~Less(key(devices[j]), key(devices[i])) /\ i < j
        order == CHOOSE p \in [1..Len(devices) -> 1..Len(devices)] :
                     /\ \A i, j \in 1..Len(devices) : i # j => p[i] # p[j]
                     /\ \A i, j \in 1..Len(devices) : i < j => Before(p[i], p[j])
    IN  IF \E i \in 1..Len(devices), k \in 1..4 :
               k <= Len(key(devices[i])) /\ key(devices[i])[k] = -1
        THEN [raised |-> TRUE, value |-> <<>>]
        ELSE [raised |-> FALSE, value |-> [i \in 1..Len(devices) |-> devices[order[i]]]]

\* line 497
get_ports_with_errors(port_errors) ==
    LET Test(port) == port.has_issues
    IN  SelectSeq(port_errors, Test)

\* line 507
get_switch_statuses(switch_statuses) == DictValues(switch_statuses)

IsOnline(d) == d.online
IsMismatched(d) == Truthy(d.actual_speed) /\ ~d.speed_match
HasIssues(p) == p.has_issues
IsConnected(sw) == sw.connected

\* lines 509-527
get_system_status(device_statuses, port_errors, switch_statuses, sws, last_update) ==
    [total_devices |-> Len(DictValues(device_statuses)),
     online_devices |-> Len(SelectSeq(DictValues(device_statuses), IsOnline)),
     mismatched_speeds |->
         Len(SelectSeq(SelectSeq(DictValues(device_statuses), IsOnline), IsMismatched)),
     ports_with_errors |-> Len(SelectSeq(port_errors, HasIssues)),
     switches_connected |-> Len(SelectSeq(DictValues(switch_statuses), IsConnected)),
     switches_total |-> Len(sws),
     last_update |-> last_update]

\* ------------------------------------------------------- event detectors
\* One record per call of send_webhook_sync: the event type, the action of
\* its payload and the name and address of the DeviceStatus it describes.
\* webhook.py 34-53: reply is what the POST meets, an exception of the HTTP
\* client or a response with a status code; every exception is caught
send_webhook_sync(reply) ==
    IF reply.raised THEN FALSE
    ELSE reply.status_code >= 200 /\ reply.status_code < 300

Delivered == [raised |-> FALSE, status_code |-> 200]

\* the webhooks of a call with the value send_webhook_sync returned for each
Posted(events, reply) ==
    [i \in 1..Len(events) |-> events[i] @@ [delivered |-> send_webhook_sync(reply)]]

DeviceEvent(event_type, action, device) ==
    [event_type |-> event_type, action |-> action,
     name |-> device.name, subject |-> device.ip, error_history |-> <<>>]

\* The loops `for ip in <set>`: a webhook for every ip that is a key of
\* _device_statuses, in the iteration order of the set.
RECURSIVE DeviceEvents(_, _, _, _)
DeviceEvents(ips, device_statuses, event_type, action) ==
    IF ips = <<>> THEN <<>>
    ELSE (IF DictHas(device_statuses, Head(ips))
          THEN <<DeviceEvent(event_type, action,
                             DictGet(device_statuses, Head(ips), None))>>
          ELSE <<>>)
         \o DeviceEvents(Tail(ips), device_statuses, event_type, action)

\* lines 531-534
CurrentOnline(device_statuses) ==
    {device_statuses[i][2].ip : i \in {j \in 1..Len(device_statuses) :
                                           device_statuses[j][2].online}}

\* OfflineChanges without the test of self._previous_online_ips on line 561
OfflineChanges_always(device_statuses, previous_online_ips, current_online) ==
    [events |->
         DeviceEvents(SetToSeq(previous_online_ips \ current_online), device_statuses,
                      "device_offline", "device_offline")
         \o DeviceEvents(SetToSeq(current_online \ previous_online_ips),
                         device_statuses, "device_online", "device_online"),
     previous_online_ips |-> current_online]

\* lines 536-581
OfflineChanges(device_statuses, previous_online_ips, current_online) ==
    [events |->
         DeviceEvents(SetToSeq(previous_online_ips \ current_online), device_statuses,
                      "device_offline", "device_offline")
         \o (IF previous_online_ips # {}
             THEN DeviceEvents(SetToSeq(current_online \ previous_online_ips),
                               device_statuses, "device_online", "device_online")
             ELSE <<>>),
     previous_online_ips |-> current_online]

\* _check_offline_changes that keeps the previous set when a delivery failed
check_offline_changes_retry(device_statuses, previous_online_ips, reply) ==
    [events |-> Posted(OfflineChanges(device_statuses, previous_online_ips,
                                      CurrentOnline(device_statuses)).events, reply),
     previous_online_ips |->
         IF /\ OfflineChanges(device_statuses, previous_online_ips,
                              CurrentOnline(device_statuses)).events # <<>>
            /\ ~send_webhook_sync(reply)
         THEN previous_online_ips
         ELSE CurrentOnline(device_statuses)]

\* lines 529-581; the value send_webhook_sync returns is not read
check_offline_changes(device_statuses, previous_online_ips, reply) ==
    [events |-> Posted(OfflineChanges(device_statuses, previous_online_ips,
                                      CurrentOnline(device_statuses)).events, reply),
     previous_online_ips |->
         OfflineChanges(device_statuses, previous_online_ips,
                        CurrentOnline(device_statuses)).previous_online_ips]

\* lines 585-589
CurrentMismatched(mismatched_devices) ==
    {mismatched_devices[i].ip : i \in 1..Len(mismatched_devices)}

\* MismatchedChanges that reports every mismatched device of the cycle
MismatchedChanges_all(device_statuses, previous_mismatched_ips, current_mismatched) ==
    [events |->
         DeviceEvents(SetToSeq(current_mismatched),
                      device_statuses, "device_speed_mismatch", "mismatch_detected")
         \o DeviceEvents(SetToSeq(previous_mismatched_ips \ current_mismatched),
                         device_statuses, "device_speed_mismatch", "mismatch_fixed"),
     previous_mismatched_ips |-> current_mismatched]

\* lines 591-636
MismatchedChanges(device_statuses, previous_mismatched_ips, current_mismatched) ==
    [events |->
         DeviceEvents(SetToSeq(current_mismatched \ previous_mismatched_ips),
                      device_statuses, "device_speed_mismatch", "mismatch_detected")
         \o DeviceEvents(SetToSeq(previous_mismatched_ips \ current_mismatched),
                         device_statuses, "device_speed_mismatch", "mismatch_fixed"),
     previous_mismatched_ips |-> current_mismatched]

\* lines 583-636; the value send_webhook_sync returns is not read
check_mismatched_changes(device_statuses, previous_mismatched_ips, reply) ==
    [events |->
         Posted(MismatchedChanges(device_statuses, previous_mismatched_ips,
                    CurrentMismatched(get_mismatched_devices(device_statuses))).events,
                reply),
     previous_mismatched_ips |->
         MismatchedChanges(device_statuses, previous_mismatched_ips,
             CurrentMismatched(get_mismatched_devices(device_statuses))).previous_mismatched_ips]

\* line 82
notification_cooldown_minutes == 30

\* lines 644-650
total_errors(port) ==
    port.rx_dropped + port.tx_dropped + port.rx_errors + port.tx_errors
    + port.rx_fcs_errors + port.tx_fcs_errors + port.rx_pause + port.tx_pause
    + port.rx_fragment

\* deque(maxlen=3).append
DequeAppend(history, x) ==
    IF Len(history) = 3 THEN Append(Tail(history), x) ELSE Append(history, x)

\* is_rising with a plateau let through
is_rising_weak(history) == history[1] <= history[2] /\ history[2] < history[3]

\* line 662
is_rising(history) == history[1] < history[2] /\ history[2] < history[3]

\* cooldown_passed that lets a notification through at the limit itself
cooldown_passed_at_limit(last_notified, t) ==
    last_notified = NoneT
    \/ (t - last_notified) * 60 >= notification_cooldown_minutes * 60

\* lines 666-671; the clock counts minutes
cooldown_passed(last_notified, t) ==
    last_notified = NoneT
    \/ (t - last_notified) * 60 > notification_cooldown_minutes * 60

\* ShouldNotify that never notifies a port twice
ShouldNotify_first_only(history, last_notified, t) ==
    Len(history) = 3 /\ is_rising(history) /\ last_notified = NoneT

\* lines 659-671
ShouldNotify(history, last_notified, t) ==
    Len(history) = 3 /\ is_rising(history) /\ cooldown_passed(last_notified, t)

\* lines 656-703 for one port
TrendOne(port, port_key, history, notify, acc, t) ==
    [port_error_history |-> DictPut(acc.port_error_history, port_key, history),
     port_error_last_notified |->
         IF notify THEN DictPut(acc.port_error_last_notified, port_key, t)
         ELSE acc.port_error_last_notified,
     events |->
         IF notify
         THEN Append(acc.events,
                  [event_type |-> "port_errors_rising",
                   action |-> "errors_increasing",
                   name |-> port.switch_name,
                   subject |-> port.port_name,
                   error_history |-> history])
         ELSE acc.events]

TrendPort(port, port_key, history, acc, t) ==
    TrendOne(port, port_key, history,
             ShouldNotify(history,
                 DictGet(acc.port_error_last_notified, port_key, NoneT), t),
             acc, t)

\* lines 640-703: acc carries port_error_history, port_error_last_notified
\* and the webhooks sent so far; a port key is the pair behind "switch:port"
RECURSIVE check_port_error_trends(_, _, _)
check_port_error_trends(ports, acc, t) ==
    IF ports = <<>> THEN acc
    ELSE check_port_error_trends(Tail(ports),
             TrendPort(Head(ports),
                       <<Head(ports).switch_name, Head(ports).port_name>>,
                       DequeAppend(DictGet(acc.port_error_history,
                                       <<Head(ports).switch_name, Head(ports).port_name>>,
                                       <<>>),
                                   total_errors(Head(ports))),
                       acc, t),
             t)

\* what one call leaves in the log: the total read for every port, the number
\* of port_errors_rising webhooks it sent and when it sent them
LogEntry(ports, events, t) ==
    [totals |-> [i \in 1..Len(ports) |-> total_errors(ports[i])],
     rising |-> Len(events),
     at |-> IF events = <<>> THEN NoneT ELSE t]

\* =================================================================== state
VARIABLES
    files,                       \* switches.yaml and devices.yaml (config.py)
    now,                         \* datetime.now(), in minutes
    _switches,                   \* NetworkMonitor fields, monitor.py 68-82
    _devices,
    _device_config,
    _device_statuses,
    _port_errors,
    _switch_statuses,
    _last_update,
    _previous_mismatched_ips,
    _previous_online_ips,
    _port_error_history,
    _port_error_last_notified,
    pc,                          \* position of each thread
    loc,                         \* locals of the collect_data call of each thread
    cycle,                       \* number of collect_data calls begun
    published,                   \* which call wrote each published field
    sent,                        \* webhooks sent by the call begun last
    log,                         \* per finished call: error totals read, trend webhooks
    fed,                         \* the scene of the raw data fed to the call begun last
    sessions,                    \* MikroTikClient objects made since the last call began
    seen                         \* what the last get_system_status call read

mon == <<_switches, _devices, _device_config, _device_statuses, _port_errors,
         _switch_statuses, _last_update, _previous_mismatched_ips,
         _previous_online_ips, _port_error_history, _port_error_last_notified>>

vars == <<files, now, mon, pc, loc, cycle, published, sent, log, fed, sessions, seen>>

\* The event-loop thread runs the lifespan start-up (main.py 23) and then the
\* request handlers one at a time; the scheduler's worker runs the interval job.
Threads == {"loop", "job"}

NoLoc == [call |-> 0, device_statuses |-> <<>>, port_errors |-> <<>>,
          all_mac_to_ip |-> <<>>, switch_data |-> <<>>]

Collecting(t) ==
    pc[t] \in {"process", "verify", "publish_devices", "publish_ports",
               "publish_time", "check_offline", "check_mismatched", "check_trends"}

InitWith(configs) ==
    /\ files \in configs
    /\ now = 0
    /\ _switches = <<>>
    /\ _devices = <<>>
    /\ _device_config = <<>>
    /\ _device_statuses = <<>>
    /\ _port_errors = <<>>
    /\ _switch_statuses = <<>>
    /\ _last_update = NoneT
    /\ _previous_mismatched_ips = {}
    /\ _previous_online_ips = {}
    /\ _port_error_history = <<>>
    /\ _port_error_last_notified = <<>>
    /\ pc = [t \in Threads |-> IF t = "loop" THEN "boot" ELSE "idle"]
    /\ loc = [t \in Threads |-> NoLoc]
    /\ cycle = 0
    /\ published = [devices |-> 0, ports |-> 0, time |-> 0]
    /\ sent = <<>>
    /\ log = <<>>
    /\ fed = None
    /\ sessions = <<>>
    /\ seen = [devices |-> 0, ports |-> 0, time |-> 0]

\* ------------------------------------------------------------ collect_data
\* The values a step computes are bound with \E over a singleton.

\* reload_config that falls back to a built-in switch when the file has none
LoadedSwitches_default ==
    IF _switches # <<>> THEN _switches
    ELSE IF files.switches = <<>> THEN <<[name |-> "sw1", host |-> "192.168.1.1"]>>
    ELSE files.switches

\* lines 129-130: reload_config when no switch is loaded
LoadedSwitches == IF _switches = <<>> THEN files.switches ELSE _switches
LoadedDevices == IF _switches = <<>> THEN files.devices ELSE _devices

\* lines 135-149
Seeded(devs, dns) ==
    SeedStatuses(devs, _device_statuses, dns,
                 [device_config |-> <<>>, device_statuses |-> <<>>])

\* Fetched with an `except: pass` around get_all_data: the switch whose
\* query raised is skipped and the pass goes on
Fetched_except(sws, devs, answers) ==
    FirstPass(sws, [i \in 1..Len(answers) |->
                       IF answers[i].raised THEN [answers[i] EXCEPT !.raised = FALSE]
                       ELSE answers[i]], 1,
              [all_mac_to_ip |-> ConfiguredMacs(devs, <<>>), switch_data |-> <<>>,
               raised |-> FALSE, sessions |-> <<>>])

\* lines 156-186
Fetched(sws, devs, answers) ==
    FirstPass(sws, answers, 1,
              [all_mac_to_ip |-> ConfiguredMacs(devs, <<>>), switch_data |-> <<>>,
               raised |-> FALSE, sessions |-> <<>>])

\* lines 129-186: reload_config, seed the fresh statuses, first pass.
\* input.dns answers the lookups, input.sw[i] is switch i this cycle.  An
\* exception of the first pass ends the call.
Begin(t, input) ==
    /\ \E sws \in {LoadedSwitches}, devs \in {LoadedDevices} :
       \E seed \in {Seeded(devs, input.dns)}, first \in {Fetched(sws, devs, input.sw)} :
          /\ _switches' = sws
          /\ _devices' = devs
          /\ _device_config' = seed.device_config
          /\ loc' = [loc EXCEPT ![t] =
                         IF first.raised THEN NoLoc
                         ELSE [call |-> cycle + 1,
                               device_statuses |-> seed.device_statuses,
                               port_errors |-> <<>>,
                               all_mac_to_ip |-> first.all_mac_to_ip,
                               switch_data |-> first.switch_data]]
          /\ pc' = [pc EXCEPT ![t] =
                        IF ~first.raised THEN "process"
                        ELSE IF t = "loop" THEN "serve" ELSE "idle"]
          /\ sessions' = first.sessions
    /\ cycle' = cycle + 1
    /\ sent' = <<>>
    /\ fed' = input.scene
    /\ UNCHANGED log
    /\ UNCHANGED <<files, now, _device_statuses, _port_errors, _switch_statuses,
                   _last_update, _previous_mismatched_ips, _previous_online_ips,
                   _port_error_history, _port_error_last_notified,
                   published, seen>>

\* lines 189-190
SecondPassStep ==
    \E t \in Threads :
        /\ pc[t] = "process"
        /\ \E st \in {SecondPass(loc[t].switch_data, loc[t].all_mac_to_ip, _device_config,
                                 [device_statuses |-> loc[t].device_statuses,
                                  port_errors |-> loc[t].port_errors,
                                  switch_statuses |-> _switch_statuses], now)} :
               /\ loc' = [loc EXCEPT ![t].device_statuses = st.device_statuses,
                                     ![t].port_errors = st.port_errors,
                                     ![t].all_mac_to_ip = <<>>,
                                     ![t].switch_data = <<>>]
               /\ _switch_statuses' = st.switch_statuses
        /\ pc' = [pc EXCEPT ![t] = "verify"]
        /\ UNCHANGED <<files, sessions, now, _switches, _devices, _device_config, _device_statuses,
                       _port_errors, _last_update, _previous_mismatched_ips,
                       _previous_online_ips, _port_error_history,
                       _port_error_last_notified, cycle, published, sent, log, fed, seen>>

\* line 194
VerifyStep ==
    \E t \in Threads, ping \in {[connected |-> TRUE, reachable |-> r] : r \in {{}, {"10.0.0.5"}}} :
        /\ pc[t] = "verify"
        /\ loc' = [loc EXCEPT ![t].device_statuses =
                       verify_online_with_ping(_switches, loc[t].device_statuses,
                                               ping.connected, ping.reachable)]
        /\ sessions' = sessions \o PingSessions(_switches, loc[t].device_statuses,
                                                 ping.connected)
        /\ pc' = [pc EXCEPT ![t] = "publish_devices"]
        /\ UNCHANGED <<files, now, mon, cycle, published, sent, log, fed, seen>>

\* line 197
SwapDevices ==
    \E t \in Threads :
        /\ pc[t] = "publish_devices"
        /\ _device_statuses' = loc[t].device_statuses
        /\ published' = [published EXCEPT !.devices = loc[t].call]
        /\ pc' = [pc EXCEPT ![t] = "publish_ports"]
        /\ UNCHANGED <<files, sessions, now, _switches, _devices, _device_config, _port_errors,
                       _switch_statuses, _last_update, _previous_mismatched_ips,
                       _previous_online_ips, _port_error_history,
                       _port_error_last_notified, loc, cycle, sent, log, fed, seen>>

\* line 198
SwapPorts ==
    \E t \in Threads :
        /\ pc[t] = "publish_ports"
        /\ _port_errors' = loc[t].port_errors
        /\ published' = [published EXCEPT !.ports = loc[t].call]
        /\ pc' = [pc EXCEPT ![t] = "publish_time"]
        /\ UNCHANGED <<files, sessions, now, _switches, _devices, _device_config, _device_statuses,
                       _switch_statuses, _last_update, _previous_mismatched_ips,
                       _previous_online_ips, _port_error_history,
                       _port_error_last_notified, loc, cycle, sent, log, fed, seen>>

\* line 199
SwapTime ==
    \E t \in Threads :
        /\ pc[t] = "publish_time"
        /\ _last_update' = now
        /\ published' = [published EXCEPT !.time = loc[t].call]
        /\ loc' = [loc EXCEPT ![t] = [NoLoc EXCEPT !.call = loc[t].call]]
        /\ pc' = [pc EXCEPT ![t] = "check_offline"]
        /\ UNCHANGED <<files, sessions, now, _switches, _devices, _device_config, _device_statuses,
                       _port_errors, _switch_statuses, _previous_mismatched_ips,
                       _previous_online_ips, _port_error_history,
                       _port_error_last_notified, cycle, sent, log, fed, seen>>

\* _check_offline_changes called before line 199 instead of after it
OfflineStep_early ==
    \E t \in Threads, reply \in {Delivered} :
        /\ pc[t] = "publish_time"
        /\ \E r \in {check_offline_changes(_device_statuses, _previous_online_ips, reply)} :
               /\ _previous_online_ips' = r.previous_online_ips
               /\ sent' = sent \o r.events
        /\ pc' = [pc EXCEPT ![t] = "check_mismatched"]
        /\ UNCHANGED <<files, sessions, now, _switches, _devices, _device_config, _device_statuses,
                       _port_errors, _switch_statuses, _last_update,
                       _previous_mismatched_ips, _port_error_history,
                       _port_error_last_notified, loc, cycle, published, log, fed, seen>>

\* line 202
OfflineStep ==
    \E t \in Threads, reply \in {Delivered} :
        /\ pc[t] = "check_offline"
        /\ \E r \in {check_offline_changes(_device_statuses, _previous_online_ips, reply)} :
               /\ _previous_online_ips' = r.previous_online_ips
               /\ sent' = sent \o r.events
        /\ pc' = [pc EXCEPT ![t] = "check_mismatched"]
        /\ UNCHANGED <<files, sessions, now, _switches, _devices, _device_config, _device_statuses,
                       _port_errors, _switch_statuses, _last_update,
                       _previous_mismatched_ips, _port_error_history,
                       _port_error_last_notified, loc, cycle, published, log, fed, seen>>

\* line 203
MismatchedStep ==
    \E t \in Threads, reply \in {Delivered} :
        /\ pc[t] = "check_mismatched"
        /\ \E r \in {check_mismatched_changes(_device_statuses,
                                               _previous_mismatched_ips, reply)} :
               /\ _previous_mismatched_ips' = r.previous_mismatched_ips
               /\ sent' = sent \o r.events
        /\ pc' = [pc EXCEPT ![t] = "check_trends"]
        /\ UNCHANGED <<files, sessions, now, _switches, _devices, _device_config, _device_statuses,
                       _port_errors, _switch_statuses, _last_update,
                       _previous_online_ips, _port_error_history,
                       _port_error_last_notified, loc, cycle, published, log, fed, seen>>

\* line 204, and the return to the caller
TrendsStep ==
    \E t \in Threads, reply \in {Delivered} :
        /\ pc[t] = "check_trends"
        /\ \E r \in {check_port_error_trends(_port_errors,
                        [port_error_history |-> _port_error_history,
                         port_error_last_notified |-> _port_error_last_notified,
                         events |-> <<>>], now)} :
               /\ _port_error_history' = r.port_error_history
               /\ _port_error_last_notified' = r.port_error_last_notified
               /\ sent' = sent \o Posted(r.events, reply)
               /\ log' = Append(log, LogEntry(_port_errors, r.events, now))
        /\ pc' = [pc EXCEPT ![t] = IF t = "loop" THEN "serve" ELSE "idle"]
        /\ loc' = [loc EXCEPT ![t] = NoLoc]
        /\ UNCHANGED <<files, sessions, now, _switches, _devices, _device_config, _device_statuses,
                       _port_errors, _switch_statuses, _last_update,
                       _previous_mismatched_ips, _previous_online_ips,
                       cycle, published, fed, seen>>

\* ---------------------------------------------------------------- triggers
Quiet == \A t \in Threads : ~Collecting(t)

\* ------------------------------------------- GET /api/status (509-527)
\* line 511
ReadDevices ==
    /\ pc["loop"] = "serve"
    /\ seen' = [seen EXCEPT !.devices = published.devices]
    /\ pc' = [pc EXCEPT !["loop"] = "read_ports"]
    /\ UNCHANGED <<files, sessions, now, mon, loc, cycle, published, sent, log, fed>>

\* line 514
ReadPorts ==
    /\ pc["loop"] = "read_ports"
    /\ seen' = [seen EXCEPT !.ports = published.ports]
    /\ pc' = [pc EXCEPT !["loop"] = "read_time"]
    /\ UNCHANGED <<files, sessions, now, mon, loc, cycle, published, sent, log, fed>>

\* line 526
ReadTime ==
    /\ pc["loop"] = "read_time"
    /\ seen' = [seen EXCEPT !.time = published.time]
    /\ pc' = [pc EXCEPT !["loop"] = "serve"]
    /\ UNCHANGED <<files, sessions, now, mon, loc, cycle, published, sent, log, fed>>

\* the clock advances by d minutes
Tick(d) ==
    /\ now + d <= MaxClock
    /\ now' = now + d
    /\ UNCHANGED <<files, sessions, mon, pc, loc, cycle, published, sent, log, fed, seen>>

\* ------------------------------------------------------------ environment
Sw1 == [name |-> "sw1", host |-> "192.168.1.1"]
Sw2 == [name |-> "sw2", host |-> "192.168.1.2"]

Device(name, ip, expected_speed, mac, switch, port) ==
    [name |-> name, ip |-> ip, expected_speed |-> expected_speed,
     mac |-> mac, switch |-> switch, port |-> port]

\* what mikrotik.py get_interfaces returns for one ethernet interface
Iface(name, running, speed, full_duplex) ==
    [name |-> name, running |-> running, speed |-> speed,
     full_duplex |-> full_duplex, rx_bytes |-> 0, tx_bytes |-> 0,
     rx_dropped |-> 0, tx_dropped |-> 0, rx_errors |-> 0, tx_errors |-> 0,
     rx_fcs_errors |-> 0, tx_fcs_errors |-> 0, rx_pause |-> 0, tx_pause |-> 0,
     rx_fragment |-> 0]

\* link states of a port: 1 Gbit/s full duplex, 100 Mbit/s half duplex, or
\* no link (get_interfaces 130-133: no rate, full duplex)
Link(name, link) ==
    CASE link = "1G" -> Iface(name, TRUE, <<"1","G","b","p","s">>, TRUE)
      [] link = "100H" ->
            Iface(name, TRUE, <<"1","0","0","M","b","p","s">>, FALSE)
      [] link = "down" -> Iface(name, FALSE, NoneS, TRUE)

\* what get_all_data returns (mikrotik.py 288-297)
SwitchData(identity, arp, dhcp_leases, bridge_hosts, interfaces, uplink_ports) ==
    [identity |-> identity, arp |-> arp, dhcp_leases |-> dhcp_leases,
     bridge_hosts |-> bridge_hosts, interfaces |-> interfaces,
     uplink_ports |-> uplink_ports]

NoData == SwitchData("", <<>>, <<>>, <<>>, <<>>, <<>>)

\* the session of one switch: connect() and, when it is up, get_all_data();
\* raised says that a query of get_all_data raised an exception that
\* MikroTikClient._query does not catch (mikrotik.py 84-93)
Answer(connect, data) ==
    [connect |-> connect, data |-> IF connect THEN data ELSE NoData, raised |-> FALSE]

Arp(ip, mac) == [ip |-> ip, mac |-> mac]
Host(mac, interface) == [mac |-> mac, interface |-> interface]

\* Inventory of the main specification: a literal address with an expected
\* speed, and a DNS name pinned to a port whose expected speed is left empty.
MainConfig ==
    [switches |-> <<Sw1, Sw2>>,
     devices |-> <<Device("srv", "10.0.0.5", <<"1","G","b","p","s">>, None, None, None),
                   Device("cam", "cam.lan", <<>>, None, "edge1", "ether4")>>]

\* Where the MAC of srv (AA) is seen.  sw1 is the router; its ether1 is the
\* uplink to sw2.  On sw1 the access port is ether2, on sw2 it is ether3.
\* Where the MAC of cam (BB) is seen: ether4 of sw1, the port it is pinned to.
MainInput(c) ==
    LET srvSeen == c.srv.at # "absent"
        camSeen == c.cam.at # "absent"
        arp == (IF srvSeen THEN <<Arp("10.0.0.5", "AA")>> ELSE <<>>)
               \o (IF camSeen THEN <<Arp("10.0.0.6", "BB")>> ELSE <<>>)
        hosts1 == (IF c.srv.at = "sw1" THEN <<Host("AA", "ether2")>>
                   ELSE IF c.srv.at \in {"uplink", "uplink+sw2"}
                        THEN <<Host("AA", "ether1")>> ELSE <<>>)
                  \o (IF camSeen THEN <<Host("BB", "ether4")>> ELSE <<>>)
        hosts2 == IF c.srv.at = "uplink+sw2" THEN <<Host("AA", "ether3")>> ELSE <<>>
        data1 == SwitchData("edge1", arp, <<>>, hosts1,
                     <<Link("ether1", "1G"),
                       Link("ether2", IF c.srv.at = "sw1" THEN c.srv.link ELSE "down"),
                       Link("ether4", IF camSeen THEN c.cam.link ELSE "down")>>,
                     <<<<"ether1", "edge2">>>>)
        data2 == SwitchData("edge2", <<>>, <<>>, hosts2,
                     <<Link("ether3", IF c.srv.at = "uplink+sw2"
                                      THEN c.srv.link ELSE "down")>>,
                     <<>>)
    IN  [scene |-> None, webhook |-> Delivered,
         dns |-> [h \in {"cam.lan", "nas.lan"} |-> c.dns],
         sw |-> <<Answer(c.up[1], data1), Answer(c.up[2], data2)>>]

MainInputs ==
    {MainInput(c) :
        c \in [srv : {[at |-> "absent", link |-> "1G"]}
                     \cup {[at |-> a, link |-> l] :
                              a \in {"sw1", "uplink+sw2"}, l \in {"1G", "100H"}}
                     \cup {[at |-> "sw1", link |-> "down"],
                           [at |-> "uplink", link |-> "1G"]},
               cam : {[at |-> "absent", link |-> "1G"], [at |-> "sw1", link |-> "1G"],
                      [at |-> "sw1", link |-> "down"]},
               up : {<<TRUE, TRUE>>},
               dns : {"10.0.0.6", "gaierror"}]}

\* outcomes of the router session and of the pings of _verify_online_with_ping
Pings ==
    {[connected |-> FALSE, reachable |-> {}]}
    \cup {[connected |-> TRUE, reachable |-> r] : r \in SUBSET {"10.0.0.5", "10.0.0.6"}}

\* ----------------------------------------------- collect_data as a whole
\* lines 127-204 run without interruption by thread t, which then returns to
\* the position `back`.  An exception of the first pass ends the call after
\* line 152; collect_data_job logs it (scheduler.py 16-20).
collect_data(t, input, ping, back) ==
    /\ \E sws \in {LoadedSwitches}, devs \in {LoadedDevices} :
       \E seed \in {Seeded(devs, input.dns)}, first \in {Fetched(sws, devs, input.sw)} :
          /\ _switches' = sws
          /\ _devices' = devs
          /\ _device_config' = seed.device_config
          /\ IF first.raised
             THEN /\ sent' = <<>>
                  /\ sessions' = first.sessions
                  /\ UNCHANGED <<_switch_statuses, _device_statuses, _port_errors,
                                 _last_update, _previous_online_ips,
                                 _previous_mismatched_ips, _port_error_history,
                                 _port_error_last_notified, log, published>>
             ELSE \E st \in {SecondPass(first.switch_data, first.all_mac_to_ip,
                                        seed.device_config,
                                        [device_statuses |-> seed.device_statuses,
                                         port_errors |-> <<>>,
                                         switch_statuses |-> _switch_statuses], now)} :
                  \E device_statuses \in {verify_online_with_ping(sws, st.device_statuses,
                                              ping.connected, ping.reachable)} :
                  \E off \in {check_offline_changes(device_statuses, _previous_online_ips,
                                                     input.webhook)},
                     mis \in {check_mismatched_changes(device_statuses, _previous_mismatched_ips,
                                                        input.webhook)},
                     tr \in {check_port_error_trends(st.port_errors,
                                 [port_error_history |-> _port_error_history,
                                  port_error_last_notified |-> _port_error_last_notified,
                                  events |-> <<>>], now)} :
                     /\ _switch_statuses' = st.switch_statuses
                     /\ _device_statuses' = device_statuses
                     /\ _port_errors' = st.port_errors
                     /\ _last_update' = now
                     /\ _previous_online_ips' = off.previous_online_ips
                     /\ _previous_mismatched_ips' = mis.previous_mismatched_ips
                     /\ _port_error_history' = tr.port_error_history
                     /\ _port_error_last_notified' = tr.port_error_last_notified
                     /\ sent' = off.events \o mis.events \o Posted(tr.events, input.webhook)
                     /\ log' = Append(log, LogEntry(st.port_errors, tr.events, now))
                     /\ published' = [devices |-> cycle + 1, ports |-> cycle + 1,
                                      time |-> cycle + 1]
                     /\ sessions' = first.sessions
                                        \o PingSessions(sws, st.device_statuses,
                                                        ping.connected)
    /\ cycle' = cycle + 1
    /\ fed' = input.scene
    /\ pc' = [pc EXCEPT ![t] = back]
    /\ UNCHANGED <<files, now, loc, seen>>

\* scheduler.py 23-36: the call of the start-up, on the event-loop thread
FirstCall(calls) ==
    /\ pc["loop"] = "boot"
    /\ \E call \in calls : collect_data("loop", call[1], call[2], "serve")

\* scheduler.py 13-20: the call of the interval job, on the worker; `limit`
\* bounds the number of calls
LaterCall(calls, limit) ==
    /\ cycle < limit
    /\ pc["loop"] # "boot"
    /\ pc["job"] = "idle"
    /\ \E call \in calls : collect_data("job", call[1], call[2], "idle")

\* ----------------------------------------------------------- specifications
\* Spec: cycles one after the other, each collect_data call run as a whole.
Init == InitWith({MainConfig})

Next ==
    \/ FirstCall(MainInputs \X Pings)
    \/ LaterCall(MainInputs \X Pings, MaxCycles)

Spec == Init /\ [][Next]_vars

\* SpecThreads: the event-loop thread and the scheduler's worker interleave
\* at the statements of collect_data and get_system_status.
ThreadsConfig ==
    [switches |-> <<Sw1>>,
     devices |-> <<Device("srv", "10.0.0.5", <<"1","G","b","p","s">>, None, None, None)>>]

ThreadsInputs ==
    {[scene |-> None, webhook |-> Delivered,
      dns |-> [h \in {"cam.lan", "nas.lan"} |-> "gaierror"],
      sw |-> <<Answer(TRUE,
                 SwitchData("edge1", <<Arp("10.0.0.5", "AA")>>, <<>>, hosts,
                            <<Link("ether2", "1G")>>, <<>>))>>] :
        hosts \in {<<>>, <<Host("AA", "ether2")>>}}

\* scheduler.py 23-36: add_job, scheduler.start(), then collect_data_job()
Startup ==
    /\ cycle < MaxCycles
    /\ pc["loop"] = "boot"
    /\ \E input \in ThreadsInputs : Begin("loop", input)

\* scheduler.py 13-20 run by the interval trigger; the scheduler keeps one
\* instance of a job (max_instances = 1), so a tick needs the worker idle
IntervalJob ==
    /\ cycle < MaxCycles
    /\ pc["loop"] # "boot"
    /\ pc["job"] = "idle"
    /\ \E input \in ThreadsInputs : Begin("job", input)

\* routers/status.py 27-31
RefreshRequest ==
    /\ cycle < MaxCycles
    /\ pc["loop"] = "serve"
    /\ \E input \in ThreadsInputs : Begin("loop", input)

NextThreads ==
    \/ Startup \/ IntervalJob \/ RefreshRequest
    \/ SecondPassStep \/ VerifyStep
    \/ SwapDevices \/ SwapPorts \/ SwapTime
    \/ OfflineStep \/ MismatchedStep \/ TrendsStep
    \/ ReadDevices \/ ReadPorts \/ ReadTime

SpecThreads == InitWith({ThreadsConfig}) /\ [][NextThreads]_vars

\* SpecReaders: collections never overlap, and the event-loop thread serves
\* GET /api/status while the worker runs the interval job.
StartupAlone == Quiet /\ Startup
IntervalJobAlone == Quiet /\ IntervalJob

NextReaders ==
    \/ StartupAlone \/ IntervalJobAlone
    \/ SecondPassStep \/ VerifyStep
    \/ SwapDevices \/ SwapPorts \/ SwapTime
    \/ OfflineStep \/ MismatchedStep \/ TrendsStep
    \/ ReadDevices \/ ReadPorts \/ ReadTime

SpecReaders == InitWith({ThreadsConfig}) /\ [][NextReaders]_vars

\* SpecCounters: one switch without inventory; every call reads one port on
\* which at most two counters are 1 and the duplex is full or half.
PortsConfig == [switches |-> <<Sw1>>, devices |-> <<>>]

\* ether7 with the counters of `raised` at v
Counted(raised, v, full_duplex) ==
    [f \in DOMAIN Iface("ether7", TRUE, S1G, full_duplex) |->
        IF f \in raised THEN v ELSE Iface("ether7", TRUE, S1G, full_duplex)[f]]

PortInput(iface) ==
    [scene |-> None, webhook |-> Delivered,
     dns |-> [h \in {"cam.lan", "nas.lan"} |-> "gaierror"],
     sw |-> <<Answer(TRUE, SwitchData("edge1", <<>>, <<>>, <<>>, <<iface>>, <<>>))>>]

CounterInputs ==
    {PortInput(Counted(raised, 1, d)) :
        raised \in {r \in SUBSET {"rx_bytes", "tx_bytes", "rx_dropped", "tx_dropped",
                                  "rx_errors", "tx_errors", "rx_fcs_errors",
                                  "tx_fcs_errors", "rx_pause", "tx_pause",
                                  "rx_fragment"} : Cardinality(r) <= 2},
        d \in BOOLEAN}

NoPing == [connected |-> FALSE, reachable |-> {}]

NextCounters ==
    \/ FirstCall(CounterInputs \X {NoPing})
    \/ LaterCall(CounterInputs \X {NoPing}, MaxCycles)

SpecCounters == InitWith({PortsConfig}) /\ [][NextCounters]_vars

\* SpecTrend: the same switch; every call reads a total of 0..MaxTotal on
\* the port, which moves by one of TrendSteps from one call to the next, and
\* the clock moves between calls.
TrendInput(v) == PortInput(Counted({"rx_errors"}, v, TRUE))

NextTrend ==
    \/ FirstCall({<<TrendInput(v), NoPing>> : v \in 0..MaxTotal})
    \/ LaterCall({<<TrendInput(v), NoPing>> :
                     v \in {w \in 0..MaxTotal :
                               w - log[Len(log)].totals[1] \in {-1, 0, 1, 2}}},
                 MaxReadings)
    \/ \E d \in {15, 16} : Tick(d)

SpecTrend == InitWith({PortsConfig}) /\ [][NextTrend]_vars

\* SpecSpeeds: the first call reads one port whose rate is any text of at
\* most MaxTokens pieces, or no rate at all.
SpeedTokens ==
    {<<"1","G">>,
     <<"1","0","G">>,
     <<"2",".","5","G">>,
     <<"5","G">>,
     <<"1">>,
     <<"1","0">>,
     <<"1","0","0">>,
     <<"g">>,
     <<"M">>,
     <<"m">>,
     <<"b","p","s">>,
     <<"b","i","t">>,
     <<"-","f","u","l","l">>,
     <<" ">>,
     <<"x">>}

RECURSIVE SpeedStrings(_)
SpeedStrings(n) ==
    IF n = 0 THEN {<<>>}
    ELSE SpeedStrings(n - 1) \cup {s \o t : s \in SpeedStrings(n - 1), t \in SpeedTokens}

NextSpeeds ==
    FirstCall({<<[PortInput(Iface("ether7", TRUE, speed, TRUE)) EXCEPT !.scene = speed],
                 NoPing>> : speed \in SpeedStrings(MaxTokens) \cup {NoneS}})

SpecSpeeds == InitWith({PortsConfig}) /\ [][NextSpeeds]_vars

\* SpecAttribution: two switches polled in either order; srv is
\* auto-discovered, cam is pinned to ether4 of edge1.  ether1 of edge1 and
\* ether9 of edge2 are the uplinks between the two switches.
AttrConfig(sws) ==
    [switches |-> sws,
     devices |-> <<Device("srv", "10.0.0.5", S1G, None, None, None),
                   Device("cam", "10.0.0.6", S100M, None, "edge1", "ether4")>>]

\* where each MAC is seen in the bridge table of edge1 (e1) and of edge2 (e2),
\* and the link of the pinned port
AttrScenes ==
    [srv : [e1 : {"absent", "access", "uplink"}, e2 : {"absent", "access", "uplink"}],
     cam : {[e1 |-> "pin", e2 |-> "absent"]},
     pin_link : {"100H"}]
    \cup [srv : {[e1 |-> "access", e2 |-> "absent"]},
          cam : [e1 : {"absent", "pin", "access", "uplink"}, e2 : {"absent", "access"}],
          pin_link : {"100H", "down"}]

\* the answers come in the order of the switch list
AttrInput(c, sws) ==
    LET Seen(d) == d.e1 # "absent" \/ d.e2 # "absent"
        Edge1Port(at) ==
            CASE at = "pin" -> "ether4" [] at = "access" -> "ether2"
              [] at = "uplink" -> "ether1"
        Edge2Port(at) == CASE at = "access" -> "ether3" [] at = "uplink" -> "ether9"
        data1 ==
            SwitchData("edge1",
                (IF Seen(c.srv) THEN <<Arp("10.0.0.5", "AA")>> ELSE <<>>)
                \o (IF Seen(c.cam) THEN <<Arp("10.0.0.6", "BB")>> ELSE <<>>),
                <<>>,
                (IF c.srv.e1 = "absent" THEN <<>>
                 ELSE <<Host("AA", Edge1Port(c.srv.e1))>>)
                \o (IF c.cam.e1 = "absent" THEN <<>>
                    ELSE <<Host("BB", Edge1Port(c.cam.e1))>>),
                <<Link("ether1", "1G"), Link("ether2", "1G"), Link("ether4", c.pin_link)>>,
                <<<<"ether1", "edge2">>>>)
        data2 ==
            SwitchData("edge2", <<>>, <<>>,
                (IF c.srv.e2 = "absent" THEN <<>>
                 ELSE <<Host("AA", Edge2Port(c.srv.e2))>>)
                \o (IF c.cam.e2 = "absent" THEN <<>>
                    ELSE <<Host("BB", Edge2Port(c.cam.e2))>>),
                <<Link("ether3", "1G"), Link("ether9", "1G")>>,
                <<<<"ether9", "edge1">>>>)
    IN  [scene |-> c, webhook |-> Delivered,
         dns |-> [h \in {"cam.lan", "nas.lan"} |-> "gaierror"],
         sw |-> [i \in 1..Len(sws) |->
                    IF sws[i] = Sw1 THEN Answer(TRUE, data1) ELSE Answer(TRUE, data2)]]

NextAttribution ==
    \/ FirstCall({<<AttrInput(c, files.switches), NoPing>> : c \in AttrScenes})
    \/ LaterCall({<<AttrInput(c, files.switches), NoPing>> : c \in AttrScenes},
                 MaxCycles - 1)

SpecAttribution == InitWith({AttrConfig(<<Sw1, Sw2>>), AttrConfig(<<Sw2, Sw1>>)}) /\ [][NextAttribution]_vars

\* Two switches and one auto-discovered device.  srv is seen on ether2 of
\* edge1, whose link is c.srv; edge2 has one port with c.v receive errors;
\* c.up says which switches accept the session, c.webhook what a POST meets.
\* c.q is what the queries of edge1 meet: "ok", "trap" (an error that _query
\* catches: its three tables come back empty, mikrotik.py 84-93) or "raise"
\* (an exception it does not catch, such as the OSError of a socket timeout).
FaultConfig ==
    [switches |-> <<Sw1, Sw2>>,
     devices |-> <<Device("srv", "10.0.0.5", S1G, None, None, None)>>]

FaultInput(c, scene) ==
    [scene |-> scene, webhook |-> c.webhook,
     dns |-> [h \in {"cam.lan", "nas.lan"} |-> "gaierror"],
     sw |-> <<[Answer(c.up[1],
                 SwitchData("edge1",
                     IF c.srv = "absent" \/ c.q = "trap" THEN <<>>
                     ELSE <<Arp("10.0.0.5", "AA")>>,
                     <<>>,
                     IF c.srv = "absent" \/ c.q = "trap" THEN <<>>
                     ELSE <<Host("AA", "ether2")>>,
                     IF c.q = "trap" THEN <<>>
                     ELSE <<Link("ether2", IF c.srv = "absent" THEN "down" ELSE c.srv)>>,
                     <<>>))
                  EXCEPT !.raised = c.up[1] /\ c.q = "raise"],
              Answer(c.up[2],
                SwitchData("edge2", <<>>, <<>>, <<>>,
                    <<Counted({"rx_errors"}, c.v, TRUE)>>, <<>>))>>]

Reached == [connected |-> TRUE, reachable |-> {"10.0.0.5"}]
\* SpecFaults: each switch accepts or refuses the session of a cycle, and the
\* queries of an accepted session of edge1 succeed or fail.
FaultCalls ==
    {<<FaultInput(c, c.up \o <<c.q>>), ping>> :
        c \in {d \in [srv : {"absent", "1G", "100H"}, up : BOOLEAN \X BOOLEAN, v : {0, 1},
                      q : {"ok", "trap", "raise"}, webhook : {Delivered}] :
                  d.up[1] \/ d.q = "ok"},
        ping \in {NoPing, Reached,
                  [connected |-> TRUE, answers |-> [ip \in {"10.0.0.5"} |-> "error"],
                   reachable |-> ping_multiple("api", [ip \in {"10.0.0.5"} |-> "error"])]}}

NextFaults == FirstCall(FaultCalls) \/ LaterCall(FaultCalls, MaxCycles)

SpecFaults == InitWith({FaultConfig}) /\ [][NextFaults]_vars

\* SpecWebhooks: every POST of a cycle is answered 2xx, answered 500, or
\* fails in the HTTP client.
WebhookCalls ==
    {<<FaultInput(c, c.webhook), Reached>> :
        c \in [srv : {"absent", "1G", "100H"}, up : {<<TRUE, TRUE>>}, v : 0..2,
               q : {"ok"},
               webhook : {Delivered, [raised |-> FALSE, status_code |-> 500],
                          [raised |-> TRUE, status_code |-> 0]}]}

NextWebhooks == FirstCall(WebhookCalls) \/ LaterCall(WebhookCalls, MaxCycles)

SpecWebhooks == InitWith({FaultConfig}) /\ [][NextWebhooks]_vars

\* SpecRepeat: a cycle reads the raw data of the cycle before or other raw
\* data; the scene says which.  The clock moves between cycles.
RepeatCalls ==
    {<<FaultInput(c, [data |-> c, ping |-> ping,
                      again |-> cycle > 0 /\ fed.data = c /\ fed.ping = ping]), ping>> :
        c \in [srv : {"absent", "1G", "100H"}, up : {<<TRUE, TRUE>>}, v : 0..2,
               q : {"ok"}, webhook : {Delivered}],
        ping \in {Reached, [connected |-> TRUE, reachable |-> {}]}}

NextRepeat ==
    \/ FirstCall(RepeatCalls)
    \/ LaterCall(RepeatCalls, MaxCycles)
    \/ (now < cycle /\ Tick(1))

SpecRepeat == InitWith({FaultConfig}) /\ [][NextRepeat]_vars

\* SpecOrder: an inventory of one device (srv) or of two (srv and nas); both
\* addresses may be seen on edge1, and edge2 has a counted port.  The first
\* collection and any later one run one statement at a time, never
\* overlapping; a later one may also run as a whole with both devices
\* answering the ping.
OrderInput(c) ==
    [scene |-> None, webhook |-> Delivered,
     dns |-> [h \in {"cam.lan", "nas.lan"} |-> "gaierror"],
     sw |-> <<Answer(TRUE,
                SwitchData("edge1",
                    (IF c.srv = "absent" THEN <<>> ELSE <<Arp("10.0.0.5", "AA")>>)
                        \o (IF c.nas THEN <<Arp("10.0.0.6", "CC")>> ELSE <<>>),
                    <<>>,
                    (IF c.srv = "absent" THEN <<>> ELSE <<Host("AA", "ether2")>>)
                        \o (IF c.nas THEN <<Host("CC", "ether3")>> ELSE <<>>),
                    <<Link("ether2", IF c.srv = "absent" THEN "down" ELSE c.srv),
                      Link("ether3", IF c.nas THEN "1G" ELSE "down")>>,
                    <<>>)),
              Answer(TRUE,
                SwitchData("edge2", <<>>, <<>>, <<>>,
                    <<Counted({"rx_errors"}, c.v, TRUE)>>, <<>>))>>]

NextOrder ==
    \/ \E c \in [srv : {"absent", "1G", "100H"}, nas : BOOLEAN, v : 0..2] :
           /\ Quiet
           /\ \/ cycle < MaxCycles /\ pc["loop"] = "boot" /\ Begin("loop", OrderInput(c))
              \/ cycle < MaxCycles /\ pc["loop"] # "boot" /\ Begin("job", OrderInput(c))
              \/ LaterCall({<<OrderInput(c),
                              [connected |-> TRUE, reachable |-> {"10.0.0.5", "10.0.0.6"}]>>},
                           MaxCycles)
    \/ SecondPassStep \/ VerifyStep
    \/ SwapDevices \/ SwapPorts \/ SwapTime
    \/ OfflineStep \/ MismatchedStep \/ TrendsStep

SpecOrder ==
    /\ InitWith({FaultConfig,
                 [switches |-> <<Sw1, Sw2>>,
                  devices |-> <<Device("srv", "10.0.0.5", S1G, None, None, None),
                                Device("nas", "10.0.0.6", S1G, None, None, None)>>]})
    /\ [][NextOrder]_vars

\* SpecSnapshot: the statements of collect_data one at a time, collections
\* never overlapping, while each switch accepts or refuses the session of a
\* cycle.
NextSnapshot ==
    \/ \E c \in [srv : {"absent", "1G"}, up : BOOLEAN \X BOOLEAN, v : {0, 1},
                  q : {"ok"}, webhook : {Delivered}] :
           /\ Quiet
           /\ cycle < MaxCycles
           /\ \/ pc["loop"] = "boot" /\ Begin("loop", FaultInput(c, c.up \o <<c.q>>))
              \/ pc["loop"] # "boot" /\ Begin("job", FaultInput(c, c.up \o <<c.q>>))
    \/ SecondPassStep \/ VerifyStep
    \/ SwapDevices \/ SwapPorts \/ SwapTime
    \/ OfflineStep \/ MismatchedStep \/ TrendsStep

SpecSnapshot == InitWith({FaultConfig}) /\ [][NextSnapshot]_vars

\* SpecPause: the switch of SpecCounters; every call reads the port at full
\* duplex with one of the two pause counters at 0..3.
NextPause ==
    \E f \in {"rx_pause", "tx_pause"}, v \in 0..3 :
        \/ FirstCall({<<PortInput(Counted({f}, v, TRUE)), NoPing>>})
        \/ LaterCall({<<PortInput(Counted({f}, v, TRUE)), NoPing>>}, MaxCycles)

SpecPause == InitWith({PortsConfig}) /\ [][NextPause]_vars

\* SpecInventory: an empty configuration, an inventory of two DNS names
\* (nas with a configured MAC, written in lower case), or one literal address
\* with that configured MAC.  The MAC is CC.  c.arp and c.dhcp name the switch
\* (0: none) whose ARP table holds 10.0.0.6 for CC and whose DHCP server
\* leases 10.0.0.7 to CC; c.host says whether the bridge table of edge1 holds
\* CC on ether2; c.dns answers both names; c.ping is the liveness step: no
\* router session, or a session and one answer of the router to /ping.
InvInput(c) ==
    [scene |-> c, webhook |-> Delivered,
     dns |-> [h \in {"cam.lan", "nas.lan"} |-> c.dns],
     sw |-> [i \in 1..2 |->
                Answer(TRUE,
                    SwitchData(IF i = 1 THEN "edge1" ELSE "edge2",
                        IF c.arp = i THEN <<Arp("10.0.0.6", "CC")>> ELSE <<>>,
                        IF c.dhcp = i THEN <<<<"10.0.0.7", "CC">>>> ELSE <<>>,
                        IF i = 1 /\ c.host THEN <<Host("CC", "ether2")>> ELSE <<>>,
                        IF i = 1 THEN <<Link("ether2", "1G")>> ELSE <<>>,
                        <<>>))]]

NextInventory ==
    \E c \in [dns : {"10.0.0.6", "gaierror"}, arp : 0..2, dhcp : 0..2, host : BOOLEAN,
               ping : {NoPing}
                      \cup {[connected |-> TRUE, answers |-> a,
                             reachable |-> ping_multiple("api", a)] :
                               a \in [{"10.0.0.6"} -> {"received", "lost", "error"}]}] :
        \/ FirstCall({<<InvInput(c), c.ping>>})
        \/ LaterCall({<<InvInput(c), c.ping>>}, MaxCycles - 1)

SpecInventory ==
    InitWith({[switches |-> <<>>, devices |-> <<>>],
              [switches |-> <<Sw1, Sw2>>,
               devices |-> <<Device("cam", "cam.lan", S1G, None, None, None),
                             Device("nas", "nas.lan", S1G, "cc", None, None)>>],
              [switches |-> <<Sw1, Sw2>>,
               devices |-> <<Device("nas", "10.0.0.6", S1G, "cc", None, None)>>]})
    /\ [][NextInventory]_vars

\* ================================================================== claims

\* C1: a get_system_status call that completes has read device statuses,
\* port errors and last_update written by one and the same collect_data call.
C1_ReadOneCycle ==
    pc["loop"] = "serve" => (seen.devices = seen.ports /\ seen.ports = seen.time)

\* C2: at most one collect_data call is in flight at any time, over the
\* initial collection, the interval job and POST /api/refresh.
C2_OneCollection == ~(Collecting("loop") /\ Collecting("job"))

\* ------------------------------------------------------ claim vocabulary
Published == DictValues(_device_statuses)

OnlineNames(device_statuses) ==
    {device_statuses[i][2].name : i \in {j \in 1..Len(device_statuses) : device_statuses[j][2].online}}

MismatchedNames(device_statuses) ==
    {device_statuses[i][2].name : i \in {j \in 1..Len(device_statuses) : device_statuses[j][2].online /\ device_statuses[j][2].actual_speed # NoneS /\ ~device_statuses[j][2].speed_match}}

InventoryNames == {files.devices[i].name : i \in 1..Len(files.devices)}

\* number of webhooks of one action sent for one device
Webhooks(events, action, name) ==
    Cardinality({i \in 1..Len(events) : events[i].action = action /\ events[i].name = name})

\* C3: in the published snapshot speed_match implies a detected actual
\* speed that equals the normalized expected speed.
C3_SpeedMatch ==
    \A i \in 1..Len(Published) :
        Published[i].speed_match =>
            /\ Published[i].actual_speed # NoneS
            /\ Published[i].actual_speed = normalize_speed(Published[i].expected_speed)

\* C4: in the published snapshot an online device has a mac, and a device
\* that was given a port or a switch this cycle has both.
C4_OnlineHasMac ==
    \A i \in 1..Len(Published) :
        Published[i].online =>
            /\ Published[i].mac # None
            /\ (Published[i].port_name # None \/ Published[i].switch_name # None)
                   => (Published[i].port_name # None /\ Published[i].switch_name # None)

C4_Witness ==
    /\ \E i \in 1..Len(Published) :
           Published[i].online /\ Published[i].port_name # None
    /\ \E i \in 1..Len(Published) :
           Published[i].online /\ Published[i].port_name = None

\* C6: with no collection in flight every count of get_system_status is
\* the size of the corresponding query result.
C6_Aggregates ==
    Quiet =>
        \E status \in {get_system_status(_device_statuses, _port_errors, _switch_statuses, _switches, _last_update)} :
            /\ status.total_devices = Len(get_all_devices(_device_statuses))
            /\ status.online_devices =
                   Len(get_all_devices(_device_statuses)) - Len(get_offline_devices(_device_statuses))
            /\ status.mismatched_speeds = Len(get_mismatched_devices(_device_statuses))
            /\ status.ports_with_errors = Len(get_ports_with_errors(_port_errors))
            /\ status.switches_connected =
                   Len(SelectSeq(get_switch_statuses(_switch_statuses), IsConnected))

C6_Witness ==
    /\ Quiet
    /\ Len(get_mismatched_devices(_device_statuses)) = 1
    /\ Len(get_offline_devices(_device_statuses)) = 1
    /\ \E i \in 1..Len(Published) :
           ~Published[i].online /\ IsMismatched(Published[i])
    /\ Len(get_ports_with_errors(_port_errors)) >= 1
    /\ Len(SelectSeq(get_switch_statuses(_switch_statuses), IsConnected)) = 2

\* C7: a cycle sends exactly one device_offline webhook for every inventory
\* device that was online in the snapshot it replaces and is offline in the
\* one it publishes, and none for any other device.
C7_OfflineEvents ==
    [][cycle' # cycle =>
          \A name \in InventoryNames' :
              Webhooks(sent', "device_offline", name) =
                  IF name \in OnlineNames(_device_statuses) \ OnlineNames(_device_statuses')
                  THEN 1 ELSE 0]_vars

\* C8: a cycle sends a device_online webhook for a device exactly when the
\* device is online in the new snapshot, was not online in the previous one
\* and the previous online set was not empty.
C8_OnlineEvents ==
    [][cycle' # cycle =>
          \A name \in InventoryNames' :
              Webhooks(sent', "device_online", name) =
                  IF /\ name \in OnlineNames(_device_statuses') \ OnlineNames(_device_statuses)
                     /\ _previous_online_ips # {}
                  THEN 1 ELSE 0]_vars

\* C9: a cycle sends mismatch_detected exactly for the devices mismatched in
\* the new snapshot and not in the previous one, mismatch_fixed exactly for
\* those mismatched in the previous one and not in the new one, and leaves
\* the addresses of the currently mismatched devices as the previous set.
C9_MismatchEvents ==
    [][cycle' # cycle =>
          /\ \A name \in InventoryNames' :
                /\ Webhooks(sent', "mismatch_detected", name) =
                       IF name \in MismatchedNames(_device_statuses') \ MismatchedNames(_device_statuses)
                       THEN 1 ELSE 0
                /\ Webhooks(sent', "mismatch_fixed", name) =
                       IF name \in MismatchedNames(_device_statuses) \ MismatchedNames(_device_statuses')
                       THEN 1 ELSE 0
          /\ _previous_mismatched_ips' = CurrentMismatched(get_mismatched_devices(_device_statuses'))]_vars

\* C5: every published port record has has_issues exactly when one of
\* rx_dropped, tx_dropped, rx_errors, tx_errors, rx_fcs_errors,
\* tx_fcs_errors, rx_pause, rx_fragment is above zero or the port is not
\* full duplex.
C5_HasIssues ==
    \A i \in 1..Len(_port_errors) :
        _port_errors[i].has_issues <=>
            \/ \E f \in {"rx_dropped", "tx_dropped", "rx_errors", "tx_errors",
                         "rx_fcs_errors", "tx_fcs_errors", "rx_pause", "rx_fragment"} :
                   _port_errors[i][f] > 0
            \/ ~_port_errors[i].full_duplex

C5_Witness ==
    \E i \in 1..Len(_port_errors) :
        /\ _port_errors[i].has_issues
        /\ _port_errors[i].full_duplex
        /\ _port_errors[i].rx_pause > 0
        /\ _port_errors[i].rx_errors = 0

\* the totals read for the first port, call by call, and the webhooks sent
Readings == [k \in 1..Len(log) |-> log[k].totals[1]]

RECURSIVE Risen(_)
Risen(k) == IF k = 0 THEN 0 ELSE log[k].rising + Risen(k - 1)

\* C10: from an empty history and within one cooldown period the readings
\* 0,1,2 send exactly one port_errors_rising, 2,2,3 send none and 1,2,3,4,5
\* send exactly one; a call sends one only on its third or later reading and
\* only when the last three readings are strictly increasing.
C10_RisingSequences ==
    /\ now <= notification_cooldown_minutes =>
          /\ Readings = <<0, 1, 2>> => Risen(Len(log)) = 1
          /\ Readings = <<2, 2, 3>> => Risen(Len(log)) = 0
          /\ Readings = <<1, 2, 3, 4, 5>> => Risen(Len(log)) = 1
    /\ \A k \in 1..Len(log) :
          log[k].rising > 0 =>
              /\ k >= 3
              /\ Readings[k - 2] < Readings[k - 1]
              /\ Readings[k - 1] < Readings[k]

C10_Witness ==
    /\ now <= notification_cooldown_minutes
    /\ now > 0
    /\ Readings = <<1, 2, 3, 4, 5>>
    /\ Risen(Len(log)) = 1
    /\ log[3].rising = 1

\* C11: two port_errors_rising webhooks for the port are more than the
\* cooldown of 30 minutes apart, whatever was read between them.
C11_Cooldown ==
    \A j, k \in 1..Len(log) :
        (j < k /\ log[j].rising > 0 /\ log[k].rising > 0) =>
            log[k].at - log[j].at > notification_cooldown_minutes

C11_Witness ==
    \E j, m, k \in 1..Len(log) :
        /\ j < m /\ m < k
        /\ log[j].rising > 0 /\ log[k].rising > 0
        /\ Readings[m] <= Readings[m - 1]

\* C12: a call whose last three readings are strictly rising and which
\* runs more than the cooldown after the port's last webhook sends
\* port_errors_rising again.
C12_RisesAgain ==
    (/\ Len(log) >= 3
     /\ Readings[Len(log) - 2] < Readings[Len(log) - 1]
     /\ Readings[Len(log) - 1] < Readings[Len(log)]
     /\ \E j \in 1..(Len(log) - 1) : log[j].rising > 0
     /\ \A j \in 1..(Len(log) - 1) :
            log[j].rising > 0 => _last_update - log[j].at > notification_cooldown_minutes)
    => log[Len(log)].rising = 1

C12_Witness ==
    /\ Len(log) >= 4
    /\ log[Len(log)].rising = 1
    /\ \E j \in 1..(Len(log) - 1) : log[j].rising > 0

\* C19: normalize_speed is idempotent: normalizing the published speed of a
\* port, itself normalize_speed of the rate that was read, gives it back.
C19_Idempotent ==
    \A i \in 1..Len(_port_errors) :
        /\ _port_errors[i].speed = normalize_speed(fed)
        /\ normalize_speed(_port_errors[i].speed) = _port_errors[i].speed

\* C20 amended: the same, with 2.5Gbps for every rate that contains 2.5g and
\* not 10g, and never 5Gbps for a rate that contains 2.5g.
C20_Classifier ==
    LET ListedSpellings ==
            {<<<<"1","G","b","p","s">>, S1G>>,
             <<<<"1","g","b","p","s">>, S1G>>,
             <<<<"1","G","b","i","t">>, S1G>>,
             <<<<"1","G">>, S1G>>,
             <<<<"1","0","0","M","b","p","s">>, S100M>>,
             <<<<"1","0","0","m","b","p","s">>, S100M>>,
             <<<<"1","0","0","M">>, S100M>>,
             <<<<"1","0","0","-","f","u","l","l">>, S100M>>,
             <<<<"1","0","M","b","p","s">>, S10M>>,
             <<<<"1","0","M">>, S10M>>,
             <<<<"1","0","-","f","u","l","l">>, S10M>>,
             <<<<"1","0","G","b","p","s">>, S10G>>,
             <<<<"1","0","G">>, S10G>>}
        Reference(text) ==
            IF StrIn(<<"1","0","g">>, text) THEN S10G
            ELSE IF StrIn(<<"2",".","5","g">>, text) THEN S2_5G
            ELSE IF StrIn(<<"5","g">>, text) THEN S5G
            ELSE IF StrIn(<<"1","g">>, text) \/ StrIn(<<"g","b","p","s">>, text)
                    \/ StrIn(<<"g","b","i","t">>, text) THEN S1G
            ELSE IF StrIn(<<"1","0","0","m">>, text) \/ StrIn(<<"1","0","0","-">>, text) THEN S100M
            ELSE IF StrIn(<<"1","0","m">>, text) \/ StrIn(<<"1","0","-">>, text) THEN S10M
            ELSE text
    IN  \A i \in 1..Len(_port_errors) :
        /\ Truthy(fed) => _port_errors[i].speed = Reference(StrStrip(StrLower(fed)))
        /\ \A pair \in ListedSpellings :
               fed = pair[1] => _port_errors[i].speed = pair[2]
        /\ (Truthy(fed) /\ StrIn(<<"2",".","5","g">>, StrLower(fed))) =>
               /\ _port_errors[i].speed # S5G
               /\ ~StrIn(<<"1","0","g">>, StrLower(fed)) => _port_errors[i].speed = S2_5G

\* C20 as stated: normalize_speed equals the reference classifier, every
\* rate containing 2.5g gives 2.5Gbps and never 5Gbps, and every listed
\* spelling gives its canonical value.
C20_Stated ==
    /\ C20_Classifier
    /\ \A i \in 1..Len(_port_errors) :
           (Truthy(fed) /\ StrIn(<<"2",".","5","g">>, StrLower(fed))) =>
               _port_errors[i].speed = S2_5G

C20_Witness ==
    /\ Len(_port_errors) = 1
    /\ StrIn(<<"2",".","5","G">>, fed)
    /\ StrIn(<<"5","G">>, fed)
    /\ ~StrIn(<<"1","0","g">>, StrLower(fed))
    /\ _port_errors[1].speed = S2_5G

\* the published status of the inventory device of that name
StatusOf(name) == CHOOSE d \in {Published[i] : i \in 1..Len(Published)} : d.name = name

\* C14: a MAC of an auto-discovered device seen on an uplink port of one
\* switch and on an access port of the other is attributed to the access
\* port and its switch, in both orders of the switch list.
C14_AccessOverUplink ==
    cycle > 0 =>
        /\ (fed.srv.e1 = "uplink" /\ fed.srv.e2 = "access") =>
               /\ StatusOf("srv").switch_name = "edge2"
               /\ StatusOf("srv").port_name = "ether3"
        /\ (fed.srv.e1 = "access" /\ fed.srv.e2 = "uplink") =>
               /\ StatusOf("srv").switch_name = "edge1"
               /\ StatusOf("srv").port_name = "ether2"

C14_Witness ==
    /\ cycle > 0
    /\ files.switches = <<Sw1, Sw2>>
    /\ fed.srv.e1 = "uplink" /\ fed.srv.e2 = "access"
    /\ StatusOf("srv").switch_name = "edge2"
    /\ StatusOf("srv").port_name = "ether3"

\* C15: a pinned device whose MAC is in the bridge table of its pinned
\* switch, on whatever port, is published on the pinned port of the pinned
\* switch with the speed of the pinned port's interface.
C15_Pinned ==
    (cycle > 0 /\ fed.cam.e1 # "absent") =>
        /\ StatusOf("cam").port_name = "ether4"
        /\ StatusOf("cam").switch_name = "edge1"
        /\ StatusOf("cam").actual_speed = normalize_speed(Link("ether4", fed.pin_link).speed)

C15_Witness ==
    /\ cycle > 0
    /\ fed.cam.e1 = "uplink"
    /\ fed.pin_link = "100H"
    /\ StatusOf("cam").port_name = "ether4"
    /\ StatusOf("cam").actual_speed = S100M
    /\ StatusOf("cam").speed_match

\* C16: a device forced offline by the ping verification is published with
\* the last_seen carried over from the snapshot of the cycle before.
C16_LastSeenKept ==
    [][cycle' # cycle =>
          \A i \in 1..Len(_device_statuses') :
              (_device_statuses'[i][2].mac # None /\ ~_device_statuses'[i][2].online) =>
                  _device_statuses'[i][2].last_seen
                      = IF DictHas(_device_statuses, _device_statuses'[i][1])
                        THEN DictGet(_device_statuses, _device_statuses'[i][1],
                                     None).last_seen
                        ELSE NoneT]_vars

\* C13 as stated: a cycle over the raw data of the cycle before publishes
\* the same device statuses and ports and sends no webhook.
C13_Stated ==
    [][(cycle' # cycle /\ fed'.again) =>
          /\ _device_statuses' = _device_statuses
          /\ _port_errors' = _port_errors
          /\ sent' = <<>>]_vars

\* C13 amended: the same, apart from last_seen, which stays or takes the
\* time of the second cycle.
C13_Repeat ==
    [][(cycle' # cycle /\ fed'.again) =>
          /\ Len(_device_statuses') = Len(_device_statuses)
          /\ \A i \in 1..Len(_device_statuses') :
                 /\ _device_statuses'[i][1] = _device_statuses[i][1]
                 /\ [_device_statuses'[i][2] EXCEPT !.last_seen = NoneT]
                        = [_device_statuses[i][2] EXCEPT !.last_seen = NoneT]
                 /\ _device_statuses'[i][2].last_seen
                        \in {_device_statuses[i][2].last_seen, now}
          /\ _port_errors' = _port_errors
          /\ sent' = <<>>]_vars

C13_Witness ==
    /\ cycle > 1
    /\ fed.again
    /\ fed.data.srv = "100H"
    /\ StatusOf("srv").online
    /\ StatusOf("srv").last_seen = now
    /\ now > 0
    /\ sent = <<>>

\* C17: a switch that refused the session of the cycle has a SwitchStatus
\* with connected false and an error, and switches_connected counts exactly
\* the switches that accepted it.
C17_ConnectFailure ==
    cycle > 0 =>
        /\ \A i \in 1..Len(_switches) :
               ~fed[i] =>
                   /\ DictHas(_switch_statuses, _switches[i].name)
                   /\ ~DictGet(_switch_statuses, _switches[i].name, None).connected
                   /\ DictGet(_switch_statuses, _switches[i].name, None).error # None
        /\ get_system_status(_device_statuses, _port_errors, _switch_statuses,
                             _switches, _last_update).switches_connected
               = Cardinality({i \in 1..Len(_switches) : fed[i]})

\* C18: after a cycle whose webhooks were not delivered the call has
\* returned, the previous-online and previous-mismatched sets are those of
\* the cycle, the ports whose webhook was sent carry the time of the cycle
\* as their cooldown timestamp, and checking the same snapshot again sends
\* nothing.
C18_FailedDelivery ==
    (cycle > 0 /\ ~send_webhook_sync(fed)) =>
        /\ \A t \in Threads : ~Collecting(t)
        /\ \A i \in 1..Len(sent) : ~sent[i].delivered
        /\ _previous_online_ips = CurrentOnline(_device_statuses)
        /\ _previous_mismatched_ips
               = CurrentMismatched(get_mismatched_devices(_device_statuses))
        /\ \A i \in 1..Len(sent) :
               sent[i].event_type = "port_errors_rising" =>
                   /\ DictGet(_port_error_last_notified,
                              <<sent[i].name, sent[i].subject>>, NoneT) = _last_update
                   /\ ~ShouldNotify(sent[i].error_history, _last_update, now)
        /\ check_offline_changes(_device_statuses, _previous_online_ips,
                                 Delivered).events = <<>>
        /\ check_mismatched_changes(_device_statuses, _previous_mismatched_ips,
                                    Delivered).events = <<>>

C18_Witness ==
    /\ cycle > 0
    /\ ~send_webhook_sync(fed)
    /\ \E i \in 1..Len(sent) : sent[i].event_type = "port_errors_rising"
    /\ \E i \in 1..Len(sent) : sent[i].action = "device_offline"
    /\ \A i \in 1..Len(sent) : ~sent[i].delivered

\* C21: for every published snapshot get_matched_devices returns without
\* error exactly the devices that are online with speed_match, in the numeric
\* order of their addresses, also when an address is a DNS name.
C21_MatchedSorted ==
    LET r == get_matched_devices(_device_statuses)
    IN  /\ ~r.raised
        /\ {r.value[i].name : i \in 1..Len(r.value)}
               = {Published[i].name : i \in {j \in 1..Len(Published) :
                      Published[j].online /\ Published[j].speed_match}}
        /\ Len(r.value) = Cardinality({r.value[i].name : i \in 1..Len(r.value)})
        /\ \A i, j \in 1..Len(r.value) :
               (i < j /\ inet_aton_ok(r.value[i].ip) /\ inet_aton_ok(r.value[j].ip)) =>
                   StrToInt(StrSplitDot(AddrText[r.value[i].ip])[4])
                       <= StrToInt(StrSplitDot(AddrText[r.value[j].ip])[4])

\* C23: from one published snapshot to the next the last_seen of an
\* inventory device never decreases and, once set, is never null again.
C23_LastSeenMonotone ==
    [][\A i \in 1..Len(_device_statuses), j \in 1..Len(_device_statuses') :
          _device_statuses[i][2].name = _device_statuses'[j][2].name =>
              _device_statuses'[j][2].last_seen >= _device_statuses[i][2].last_seen]_vars

\* C22: with no switch and no device configured every collect_data call
\* completes, every query returns an empty list, every count of
\* get_system_status is zero and no webhook is sent.
C22_EmptyConfig ==
    (files.switches = <<>> /\ files.devices = <<>>) =>
        /\ published = [devices |-> cycle, ports |-> cycle, time |-> cycle]
        /\ get_all_devices(_device_statuses) = <<>>
        /\ get_mismatched_devices(_device_statuses) = <<>>
        /\ get_matched_devices(_device_statuses) = [raised |-> FALSE, value |-> <<>>]
        /\ get_offline_devices(_device_statuses) = <<>>
        /\ _port_errors = <<>>
        /\ get_ports_with_errors(_port_errors) = <<>>
        /\ get_switch_statuses(_switch_statuses) = <<>>
        /\ get_system_status(_device_statuses, _port_errors, _switch_statuses,
                             _switches, _last_update)
               = [total_devices |-> 0, online_devices |-> 0, mismatched_speeds |-> 0,
                  ports_with_errors |-> 0, switches_connected |-> 0,
                  switches_total |-> 0, last_update |-> _last_update]
        /\ sent = <<>>

C22_Witness ==
    /\ files.switches = <<>>
    /\ files.devices = <<>>
    /\ cycle >= 2
    /\ _last_update # NoneT

\* C25: every published snapshot holds exactly one DeviceStatus for every
\* inventory device, and total_devices is the number of configured devices.
C25_OnePerDevice ==
    cycle > 0 =>
        /\ \A d \in 1..Len(files.devices) :
               Cardinality({i \in 1..Len(Published) :
                               Published[i].name = files.devices[d].name}) = 1
        /\ get_system_status(_device_statuses, _port_errors, _switch_statuses,
                             _switches, _last_update).total_devices = Len(files.devices)

\* C26: a device whose inventory address failed to resolve in the cycle is
\* published offline and without a MAC.
C26_UnresolvedOffline ==
    cycle > 0 =>
        \A d \in 1..Len(files.devices) :
            (~inet_aton_ok(files.devices[d].ip) /\ fed.dns = "gaierror") =>
                \E i \in 1..Len(Published) :
                    /\ Published[i].name = files.devices[d].name
                    /\ ~Published[i].online
                    /\ Published[i].mac = None

\* C27: at the end of the first pass the MAC-to-IP index holds for CC the
\* address of an ARP entry if a switch has one, otherwise the address of a
\* DHCP lease if a switch has one, otherwise the configured address.
C27_Precedence ==
    (cycle > 0 /\ files.switches # <<>>) =>
        LET index == Fetched(_switches, _devices, InvInput(fed).sw).all_mac_to_ip
        IN  /\ fed.arp # 0 => DictGet(index, "CC", None) = "10.0.0.6"
            /\ (fed.arp = 0 /\ fed.dhcp # 0) => DictGet(index, "CC", None) = "10.0.0.7"
            /\ (fed.arp = 0 /\ fed.dhcp = 0) =>
                   \E d \in 1..Len(files.devices) :
                       /\ TruthyStr(files.devices[d].mac)
                       /\ MacUpper(files.devices[d].mac) = "CC"
                       /\ DictGet(index, "CC", None) = files.devices[d].ip

\* C28: a device with a configured MAC that a bridge table lists is published
\* online with that MAC when no ARP entry and no DHCP lease exists for it and
\* the liveness step does not fail it, for a literal address and for a DNS
\* name that resolved.
C28_ConfiguredMac ==
    (cycle > 0 /\ fed.host /\ fed.arp = 0 /\ fed.dhcp = 0
       /\ (fed.ping.connected => "10.0.0.6" \in fed.ping.reachable)) =>
        \A d \in 1..Len(files.devices) :
            (/\ TruthyStr(files.devices[d].mac)
             /\ (inet_aton_ok(files.devices[d].ip) \/ fed.dns # "gaierror")) =>
                \E i \in 1..Len(Published) :
                    /\ Published[i].name = files.devices[d].name
                    /\ Published[i].online
                    /\ Published[i].mac = MacUpper(files.devices[d].mac)

\* C30: when the router session of the liveness step cannot be established,
\* every device that the second pass marked online (it then has a MAC) is
\* published online.
C30_FailOpen ==
    (cycle > 0 /\ ~fed.ping.connected) =>
        \A i \in 1..Len(Published) : Published[i].mac # None => Published[i].online

C30_Witness ==
    /\ cycle > 0
    /\ ~fed.ping.connected
    /\ \E i \in 1..Len(Published) : Published[i].mac # None /\ Published[i].online

\* C29: whatever session or query fails on one switch, the cycle publishes,
\* and the snapshot holds the ports of every switch whose session and
\* queries succeeded.
C29_Isolation ==
    cycle > 0 =>
        /\ published = [devices |-> cycle, ports |-> cycle, time |-> cycle]
        /\ (fed[1] /\ fed[3] = "ok") =>
               \E i \in 1..Len(_port_errors) : _port_errors[i].switch_name = "edge1"
        /\ fed[2] =>
               \E i \in 1..Len(_port_errors) : _port_errors[i].switch_name = "edge2"

\* C24: the webhooks of a cycle are sent in the order device_offline,
\* device_online, mismatch, port_errors_rising, and none is sent before the
\* snapshot of the cycle is published.
C24_EventOrder ==
    LET Rank(e) ==
            CASE e.action = "device_offline" -> 1
              [] e.action = "device_online" -> 2
              [] e.event_type = "device_speed_mismatch" -> 3
              [] e.event_type = "port_errors_rising" -> 4
    IN  /\ \A i, j \in 1..Len(sent) : i < j => Rank(sent[i]) <= Rank(sent[j])
        /\ sent # <<>> => published = [devices |-> cycle, ports |-> cycle, time |-> cycle]

C24_Witness ==
    /\ \E i \in 1..Len(sent) : sent[i].action = "device_offline"
    /\ \E i \in 1..Len(sent) : sent[i].action = "device_online"
    /\ \E i \in 1..Len(sent) : sent[i].event_type = "device_speed_mismatch"
    /\ \E i \in 1..Len(sent) : sent[i].event_type = "port_errors_rising"

\* C31: a collect_data call opens at most one RouterOS session on each
\* configured switch, the router (the first switch) included.
C31_OneSession ==
    \A i, j \in 1..Len(sessions) :
        sessions[i].host = sessions[j].host /\ sessions[i].opened /\ sessions[j].opened
            => i = j

\* C32: when no collection is running, every client of the last call whose
\* connect() succeeded has been disconnected: its api was closed exactly
\* once and is_connected() is false, whether the call completed, or a query
\* raised; a client that never connected was never closed.
C32_SessionsClosed ==
    Quiet =>
        \A i \in 1..Len(sessions) :
            /\ sessions[i]._api = None
            /\ sessions[i].closes = (IF sessions[i].opened THEN 1 ELSE 0)

C32_Witness ==
    /\ Quiet
    /\ cycle > 1
    /\ fed[3] = "raise"
    /\ published.devices < cycle
    /\ Len(sessions) = 1
    /\ sessions[1].opened

\* C40: when the router session of the liveness step is established and the
\* ping of every address ends in an exception, every device is published
\* offline, the devices that the second pass marked online included.
C40_PingErrorOffline ==
    (cycle > 0 /\ fed.ping.connected /\ \A ip \in DOMAIN fed.ping.answers : fed.ping.answers[ip] = "error") =>
        \A i \in 1..Len(Published) : ~Published[i].online

C40_Witness ==
    /\ cycle > 0
    /\ fed.ping.connected
    /\ fed.ping.answers["10.0.0.6"] = "error"
    /\ Len(sessions) = 3
    /\ sessions[3].opened
    /\ \E i \in 1..Len(Published) : Published[i].mac # None /\ ~Published[i].online

\* C33: a pinned device whose MAC is only in the bridge table of a switch
\* other than its pinned one, on a port that is not an uplink, is
\* auto-discovered there: it is published on that port of that switch.
C33_PinnedElsewhere ==
    (cycle > 0 /\ fed.cam.e1 = "absent" /\ fed.cam.e2 = "access") =>
        /\ StatusOf("cam").online
        /\ StatusOf("cam").switch_name = "edge2"
        /\ StatusOf("cam").port_name = "ether3"

\* C34: once a cycle is published, a statement of a later collection that
\* comes before its publish step changes the result of no read query:
\* get_all_devices, get_all_ports, get_switch_statuses and
\* get_system_status return what they returned before the statement.
C34_ReadsUnchanged ==
    [][(/\ published.devices > 0
        /\ \E t \in Threads : pc'[t] \in {"process", "verify", "publish_devices"}) =>
          /\ get_all_devices(_device_statuses') = get_all_devices(_device_statuses)
          /\ _port_errors' = _port_errors
          /\ get_switch_statuses(_switch_statuses') = get_switch_statuses(_switch_statuses)
          /\ get_system_status(_device_statuses', _port_errors', _switch_statuses',
                               _switches', _last_update')
               = get_system_status(_device_statuses, _port_errors, _switch_statuses,
                                   _switches, _last_update)]_vars

\* C35: a collect_data call that an exception ends before the publish step
\* leaves the published device statuses, port errors and last_update, the
\* previous-online and previous-mismatched sets, the error histories and the
\* cooldown timestamps as they were, sends no webhook, and returns its
\* thread to the position from which the next tick starts.
C35_Abandoned ==
    [][(cycle' = cycle + 1 /\ fed'[3] = "raise") =>
          /\ UNCHANGED <<_device_statuses, _port_errors, _last_update, published,
                         _previous_online_ips, _previous_mismatched_ips,
                         _port_error_history, _port_error_last_notified>>
          /\ sent' = <<>>
          /\ pc'["loop"] = "serve"
          /\ pc'["job"] = "idle"]_vars

C35_Witness ==
    /\ cycle = 3
    /\ Len(log) = 2
    /\ fed[3] = "ok"
    /\ published = [devices |-> 3, ports |-> 3, time |-> 3]
    /\ \E i \in 1..Len(_device_statuses) : _device_statuses[i][2].online

\* C36: a statement of a cycle that starts with an empty previous-online
\* set sends no device_online webhook, in the first cycle and in any later
\* one; with an inventory of one device no device_online webhook is sent at
\* all.
C36_OnlineSuppressed ==
    [][(_previous_online_ips = {} \/ Len(files.devices) = 1) =>
          \A i \in 1..Len(sent') : sent'[i].action # "device_online"]_vars

C36_Witness ==
    /\ Len(files.devices) = 1
    /\ cycle = 3
    /\ pc["job"] = "check_offline"
    /\ _previous_online_ips = {}
    /\ published = [devices |-> 3, ports |-> 3, time |-> 3]
    /\ _device_statuses[1][2].online

\* C37: every device that was in the previous-mismatched set and is offline
\* in the snapshot of a cycle gets, in that cycle, a device_offline webhook
\* and a device_speed_mismatch webhook with action mismatch_fixed, whatever
\* the speed of its port.
C37_OfflineFixed ==
    [][(cycle' = cycle + 1 /\ published'.devices = cycle') =>
          \A i \in 1..Len(_device_statuses') :
              (/\ _device_statuses'[i][2].ip \in _previous_mismatched_ips
               /\ ~_device_statuses'[i][2].online) =>
                 /\ Webhooks(sent', "device_offline", _device_statuses'[i][2].name) = 1
                 /\ Webhooks(sent', "mismatch_fixed", _device_statuses'[i][2].name) = 1]_vars

\* C38: a call that reads a full-duplex port whose only non-zero counter is
\* tx_pause, as the third of three strictly rising totals and with no
\* port_errors_rising sent before, sends port_errors_rising for the port and
\* publishes it with has_issues false.
C38_PauseRising ==
    (/\ Len(log) >= 3
     /\ published.ports = cycle
     /\ Readings[Len(log) - 2] < Readings[Len(log) - 1]
     /\ Readings[Len(log) - 1] < Readings[Len(log)]
     /\ Risen(Len(log) - 1) = 0
     /\ _port_errors[1].full_duplex
     /\ _port_errors[1].tx_pause = Readings[Len(log)]) =>
        /\ Len(sent) = 1
        /\ sent[1].event_type = "port_errors_rising"
        /\ sent[1].subject = _port_errors[1].port_name
        /\ ~_port_errors[1].has_issues

C38_Witness ==
    /\ Readings = <<0, 1, 2>>
    /\ _port_errors[1].tx_pause = 2
    /\ _port_errors[1].rx_pause = 0
    /\ Len(sent) = 1
    /\ sent[1].event_type = "port_errors_rising"
    /\ ~_port_errors[1].has_issues
    /\ get_ports_with_errors(_port_errors) = <<>>

\* C39: a device that the second pass found on a port and that does not
\* answer the ping of an established router session is published offline
\* with the mac, switch_name, port_name, actual_speed and speed_match of the
\* second pass.
C39_OnlyOnline ==
    (/\ cycle > 0
     /\ fed.data.srv # "absent"
     /\ fed.ping.connected
     /\ "10.0.0.5" \notin fed.ping.reachable) =>
        /\ ~StatusOf("srv").online
        /\ StatusOf("srv").mac = "AA"
        /\ StatusOf("srv").switch_name = "edge1"
        /\ StatusOf("srv").port_name = "ether2"
        /\ StatusOf("srv").actual_speed = normalize_speed(Link("ether2", fed.data.srv).speed)
        /\ StatusOf("srv").speed_match
               = (normalize_speed(Link("ether2", fed.data.srv).speed) = S1G)

C39_Witness ==
    /\ cycle > 0
    /\ fed.ping.connected
    /\ fed.ping.reachable = {}
    /\ ~StatusOf("srv").online
    /\ StatusOf("srv").speed_match
    /\ StatusOf("srv").port_name = "ether2"
    /\ get_offline_devices(_device_statuses) # <<>>

====
